---- MODULE Spec2Model ----
(***************************************************************************)
(* Model of the protocol engine of python_mcp/servers/base_server.py:      *)
(* McpBaseServer (the dispatcher, the response writer, the signal bridge   *)
(* and the message loop) instantiated as the EchoServer demo of the same   *)
(* file.                                                                   *)
(*                                                                         *)
(* Two specifications share the loop's variables.  Spec works message by   *)
(* message: the framer is summarised by what it returns for each kind of   *)
(* input.  FramerSpec works byte by byte: a host writes frames into the    *)
(* pipe in pieces and may close it anywhere, and the handling of a body is *)
(* reduced to its effect on the two lifecycle flags.                       *)
(*                                                                         *)
(* Encoding of Python / JSON values                                        *)
(*   - Python None is the string "None" (what an f-string prints for it).  *)
(*   - A request id is the text of its JSON literal ("1", "2", ...).       *)
(*   - A JSON null, and an absent key of a response, are tagged records.   *)
(*   - A decoded request is a record; mtype says what JSON type its        *)
(*     "method" member has ("str", "int", or "absent").                    *)
(***************************************************************************)
EXTENDS Integers, Sequences, FiniteSets, TLC

VARIABLES
    initialized,         \* self._initialized
    shutdown_requested,  \* self._shutdown_requested
    pc,                  \* position of the single thread in run()/_run_message_loop
    cur,                 \* the item the framer was given by the last read
    content_text,        \* what _read_header_and_content returned as content
    response,            \* the response the loop is about to send
    out,                 \* every write made on raw_stdout, in order
    wrote,               \* the writes of the current loop iteration
    invoked,             \* handler invocations of the current loop iteration
    nread,               \* number of calls of _read_header_and_content so far
    signalled,           \* history: a termination signal has been delivered
    writeFailed,         \* history: some _send_response lost (part of) a frame
    scen,                \* history: length of the matched prefix of Scenario, or -1
    stream,              \* bytes in the pipe behind raw_stdin, not yet read
    pending,             \* bytes of the current frame the host has yet to write
    closed,              \* the host has closed its end of the pipe
    header_data,         \* local header_data of _read_header_and_content
    content_length,      \* local content_length of _read_header_and_content
    fed,                 \* number of frames the host has started to write
    server,              \* ServersSpec: the shipped server whose main() runs
    tool_handlers,       \* ServersSpec: names registered with register_tool
    srv_pc,              \* ServersSpec: position in main()
    served,              \* ServersSpec: the last request served and its response
    emb_pc,              \* EmbSpec: position of the embedding server in handle_jsonrpc
    emb_cur,             \* EmbSpec: what the last pass of its loop read
    emb_out,             \* EmbSpec: every response it tried to write, in order
    emb_nread,           \* EmbSpec: number of passes of its loop so far
    files,               \* FsSpec: what each path of the file system holds
    fs_last              \* FsSpec: the last tool call, and how it ended

\* The byte-level state: used by FramerSpec, constant under Spec.
framerVars == << stream, pending, closed, header_data, content_length, fed >>

\* The state of the shipped servers' start-up: used by ServersSpec.
serversVars == << server, tool_handlers, srv_pc, served >>

\* The state of the embedding server: used by EmbSpec.
embVars == << emb_pc, emb_cur, emb_out, emb_nread >>

\* What the specifications of the echo server's loop leave alone.
fsVars == << files, fs_last >>

otherVars == << serversVars, embVars, fsVars >>

\* The state of the echo server's loop and framer.
loopVars == << initialized, shutdown_requested, pc, cur, content_text, response,
               out, wrote, invoked, nread, signalled, writeFailed, scen >>

vars == << initialized, shutdown_requested, pc, cur, content_text, response,
           out, wrote, invoked, nread, signalled, writeFailed, scen,
           stream, pending, closed, header_data, content_length, fed,
           server, tool_handlers, srv_pc, served,
           emb_pc, emb_cur, emb_out, emb_nread, files, fs_last >>

-----------------------------------------------------------------------------
(* Bounds of the model *)

\* Number of messages the input stream may deliver before it ends.
MaxReads == 3

\* Number of frames the host writes in the byte-level specification.
MaxFrames == 2

\* Number of messages the embedding server's input may deliver before it ends.
MaxMessages == 2

-----------------------------------------------------------------------------
(* Values *)

None == "None"

JNull == [null |-> TRUE]
Absent == [absent |-> TRUE]
NoResponse == [none |-> TRUE]

\* JSON-RPC error codes used by the base server.
ToolNotFoundCode == -32601
MethodNotFoundCode == -32601
ToolExecutionErrorCode == -32000
InternalErrorCode == -32603

\* Request ids on the wire (JSON integer literals).
Ids == {"1", "2"}

\* `arguments` values: a mapping (with or without "text") or a JSON array.
ArgsEmpty == [isdict |-> TRUE, text |-> None]
ArgsHi == [isdict |-> TRUE, text |-> "hi"]
ArgsList == [isdict |-> FALSE, text |-> None]

\* A tool_name that is a JSON array: a Python list, which cannot be a dict key.
Unhashable == "<list>"

\* A tool_name that is the JSON null: the key is present, and params.get
\* returns None for it as it does for a key that is not there.
NullName == "<null>"

\* `params` values.  isdict: params is a JSON object.  has_arguments: the
\* "arguments" key is present.  id: the value of a nested "id" key, or None.
MkParams(d, tn, n, ha, a, i) ==
    [isdict |-> d, tool_name |-> tn, name |-> n, has_arguments |-> ha,
     arguments |-> a, id |-> i]

ParamsAbsent == MkParams(TRUE, None, None, FALSE, ArgsEmpty, None)

ToolParams ==
    { ParamsAbsent,
      MkParams(TRUE, "echo", None, TRUE, ArgsHi, None),
      MkParams(TRUE, "echo", None, FALSE, ArgsEmpty, None),
      MkParams(TRUE, "echo", None, TRUE, ArgsList, None),
      MkParams(TRUE, "fail", None, TRUE, ArgsHi, None),
      MkParams(TRUE, "nope", None, TRUE, ArgsHi, None),
      MkParams(TRUE, None, "echo", TRUE, ArgsHi, None),
      MkParams(TRUE, "nope", "echo", TRUE, ArgsHi, None),
      MkParams(TRUE, NullName, "echo", TRUE, ArgsHi, None),
      MkParams(TRUE, Unhashable, None, TRUE, ArgsHi, None),
      MkParams(FALSE, None, None, FALSE, ArgsEmpty, None) }

NestedIdParams == MkParams(TRUE, None, None, FALSE, ArgsEmpty, "2")

\* A decoded JSON object.  params_first: the "params" member is written before
\* the "id" member in the body text (JSON objects are unordered).
MkRequest(mt, m, i, p, pf) ==
    [json |-> "object", mtype |-> mt, method |-> m, id |-> i, params |-> p,
     params_first |-> pf]

StringMethods ==
    {"initialize", "shutdown", "exit", "$/progress", "unknown/method"}

ToolMethods == {"tool/execute", "mcp/tool/execute"}

\* The message sequence of the spec's section 8: initialize(1),
\* tool/execute(2, echo, {text: "hi"}), shutdown(3), exit.
Scenario ==
    << MkRequest("str", "initialize", "1", ParamsAbsent, FALSE),
       MkRequest("str", "tool/execute", "2",
                 MkParams(TRUE, "echo", None, TRUE, ArgsHi, None), FALSE),
       MkRequest("str", "shutdown", "3", ParamsAbsent, FALSE),
       MkRequest("str", "exit", None, ParamsAbsent, FALSE) >>

ScenarioMessages == { Scenario[i] : i \in 1..Len(Scenario) }

Requests ==
    ScenarioMessages \cup
      { MkRequest("str", m, i, ParamsAbsent, FALSE) :
          m \in StringMethods, i \in Ids \cup {None} }
    \cup { MkRequest("str", m, i, p, FALSE) :
          m \in ToolMethods, i \in Ids \cup {None}, p \in ToolParams }
    \cup { MkRequest("absent", None, i, ParamsAbsent, FALSE) : i \in Ids \cup {None} }
    \cup { MkRequest("int", "5", i, p, pf) :
          i \in {"1", None}, p \in {ParamsAbsent, NestedIdParams},
          pf \in BOOLEAN }

\* Bodies on which json.loads raises something other than JSONDecodeError:
\* RecursionError on brackets nested deeper than the interpreter's recursion
\* limit (whether or not they are ever closed), ValueError on an integer of
\* more than 4300 digits.  syntax: what the text is as JSON.  id: the first
\* "id" member with an integer or string value in the text, or None.
LoadsRaises(syntax, i, exc) ==
    [json |-> "raises", syntax |-> syntax, id |-> i, params |-> ParamsAbsent,
     params_first |-> FALSE, exc |-> exc]

RecursionErrorText ==
    "maximum recursion depth exceeded while decoding a JSON array from a unicode string"

IntLimitErrorText ==
    "Exceeds the limit (4300 digits) for integer string conversion: value has 5000 digits; use sys.set_int_max_str_digits() to increase the limit"

RaisingBodies ==
    { LoadsRaises("invalid", "1", RecursionErrorText),
      LoadsRaises("invalid", None, RecursionErrorText),
      LoadsRaises("array", "1", IntLimitErrorText) }

\* Message bodies: text that is not JSON, JSON that is not an object, text on
\* which the parser fails in another way, objects.
Bodies == { [json |-> "invalid"], [json |-> "array"] } \cup RaisingBodies
          \cup Requests

\* What the input stream holds next, as the framer sees it.
FramingFailures == {"eof", "oversize", "nolength", "truncated", "badutf8"}

Items ==
    { [kind |-> k] : k \in FramingFailures }
    \cup { [kind |-> "frame", body |-> b] : b \in Bodies }

NoItem == [kind |-> "none"]

\* The EchoServer demo: name, version, tool descriptors, registered handlers.
ServerName == "echo-server"
ServerVersion == "1.0.0"

Tools ==
    << [name |-> "echo", description |-> "Echoes back the input"],
       [name |-> "fail", description |-> "A tool designed to fail"] >>

ToolHandlers == {"echo", "fail"}


-----------------------------------------------------------------------------
(* Tool handlers of EchoServer *)

Returned(v) == [ok |-> TRUE, value |-> v, exc |-> None]
Raised(e) == [ok |-> FALSE, value |-> JNull, exc |-> e]

\* EchoServer.handle_echo: args.get("text", "No text provided").
handle_echo(args) ==
    IF ~args.isdict
    THEN Raised("'list' object has no attribute 'get'")
    ELSE Returned([message |-> "Echo: " \o
                      (IF args.text = None THEN "No text provided" ELSE args.text)])

\* EchoServer.handle_fail: always raises ValueError.
handle_fail(args) == Raised("This tool failed intentionally!")

\* Calling the handler registered under `tool_name`.
CallHandler(tool_name, args) ==
    IF tool_name = "echo" THEN handle_echo(args) ELSE handle_fail(args)

-----------------------------------------------------------------------------
(* Dispatcher *)

ResultResponse(req_id, result) ==
    [keys |-> {"jsonrpc", "id", "result"}, id |-> req_id,
     result |-> result, error |-> Absent]

\* Mutant of ErrorResponse: a null result goes along with the error.
ErrorResponseWithResult(req_id, code, message) ==
    [keys |-> {"jsonrpc", "id", "result", "error"}, id |-> req_id,
     result |-> JNull, error |-> [code |-> code, message |-> message]]

ErrorResponse(req_id, code, message) ==
    [keys |-> {"jsonrpc", "id", "error"}, id |-> req_id,
     result |-> Absent, error |-> [code |-> code, message |-> message]]

\* Mutant of CreateCapabilities: the tool descriptors are left out.
CreateCapabilitiesNoTools ==
    [serverInfo |-> [name |-> ServerName, version |-> ServerVersion],
     capabilities |-> [tools |-> << >>, resources |-> << >>],
     status |-> "initialized"]

\* McpBaseServer._create_capabilities
CreateCapabilities ==
    [serverInfo |-> [name |-> ServerName, version |-> ServerVersion],
     capabilities |-> [tools |-> Tools, resources |-> << >>],
     status |-> "initialized"]

\* Python truthiness of request.get("method").
Truthy(request) ==
    /\ request.mtype # "absent"
    /\ ~(request.mtype = "str" /\ request.method = "")
    /\ ~(request.mtype = "int" /\ request.method = "0")

\* method.startswith('$/') for a string method.
StartsWithDollarSlash(method) == method \in {"$/progress"}

\* What _handle_request does: the response it returns (NoResponse for None), the
\* two flags afterwards, the handler calls it made, and the exception it let
\* escape (None when it returned).
Handled(resp, init, shut, calls, exc) ==
    [response |-> resp, initialized |-> init, shutdown_requested |-> shut,
     invoked |-> calls, raised |-> exc]

\* Mutant of ToolName: the legacy "name" wins over "tool_name".
ToolNameLegacyFirst(params) ==
    IF ~params.isdict THEN None
    ELSE IF params.name # None THEN params.name
    ELSE IF params.tool_name = NullName THEN None
    ELSE params.tool_name

\* The tool named by params (lines 183-188): params.get("tool_name"), or
\* params.get("name") when that is None, which it is for a key that is not
\* there and for a null; None when params is not a mapping.
ToolName(params) ==
    LET tool_name == IF params.isdict /\ params.tool_name # NullName
                     THEN params.tool_name ELSE None
    IN  IF tool_name = None /\ params.isdict THEN params.name ELSE tool_name

\* Mutant of ToolArguments: the handler is always given an empty mapping.
ToolArgumentsDropped(params) == ArgsEmpty

\* params.get("arguments", {}) when params is a mapping, else {}.
ToolArguments(params) ==
    IF params.isdict /\ params.has_arguments THEN params.arguments ELSE ArgsEmpty

\* Mutant of HandlerOutcome: no try/except, the failure leaves _handle_request.
HandlerOutcomeUncaught(req_id, r, init, shut, call) ==
    IF r.ok
    THEN Handled(ResultResponse(req_id, r.value), init, shut, call, None)
    ELSE Handled(NoResponse, init, shut, call, r.exc)

\* Mutant of HandlerOutcome: the handler's value is wrapped before it is sent.
HandlerOutcomeWrapped(req_id, r, init, shut, call) ==
    IF r.ok
    THEN Handled(ResultResponse(req_id, [output |-> r.value]), init, shut, call, None)
    ELSE Handled(ErrorResponse(req_id, ToolExecutionErrorCode,
                               "Tool execution error: " \o r.exc),
                 init, shut, call, None)

\* The try/except around the handler call: `r` is what the handler did.
HandlerOutcome(req_id, r, init, shut, call) ==
    IF r.ok
    THEN Handled(ResultResponse(req_id, r.value), init, shut, call, None)
    ELSE Handled(ErrorResponse(req_id, ToolExecutionErrorCode,
                               "Tool execution error: " \o r.exc),
                 init, shut, call, None)

\* The branch taken when no handler is registered under tool_name.
ToolNotFound(req_id, tool_name, init, shut) ==
    Handled(ErrorResponse(req_id, ToolNotFoundCode,
                          "Tool not found: " \o tool_name),
            init, shut, << >>, None)

\* Mutant of ToolExecute: the test of the id is left out.
ToolExecuteIgnoresMissingId(request, init, shut) ==
    LET req_id == request.id
        tool_name == ToolName(request.params)
        arguments == ToolArguments(request.params)
    IN  IF tool_name = Unhashable
        THEN Handled(NoResponse, init, shut, << >>, "unhashable type: 'list'")
        ELSE IF tool_name \in ToolHandlers
        THEN HandlerOutcome(req_id, CallHandler(tool_name, arguments), init, shut,
                            << [tool |-> tool_name, arguments |-> arguments] >>)
        ELSE ToolNotFound(req_id, tool_name, init, shut)

\* Mutant of ToolExecute: a request made before `initialize` is refused.
ToolExecuteRequiresInitialize(request, init, shut) ==
    LET req_id == request.id
        tool_name == ToolName(request.params)
        arguments == ToolArguments(request.params)
    IN  IF req_id = None
        THEN Handled(NoResponse, init, shut, << >>, None)
        ELSE IF ~init
        THEN Handled(ErrorResponse(req_id, InternalErrorCode,
                                   "Server not initialized"),
                     init, shut, << >>, None)
        ELSE IF tool_name = Unhashable
        THEN Handled(NoResponse, init, shut, << >>, "unhashable type: 'list'")
        ELSE IF tool_name \in ToolHandlers
        THEN HandlerOutcome(req_id, CallHandler(tool_name, arguments), init, shut,
                            << [tool |-> tool_name, arguments |-> arguments] >>)
        ELSE ToolNotFound(req_id, tool_name, init, shut)

\* The tool/execute branch of _handle_request.  self.tool_handlers.get raises
\* TypeError on a tool_name that is a list.
ToolExecute(request, init, shut) ==
    LET req_id == request.id
        tool_name == ToolName(request.params)
        arguments == ToolArguments(request.params)
    IN  IF req_id = None
        THEN Handled(NoResponse, init, shut, << >>, None)
        ELSE IF tool_name = Unhashable
        THEN Handled(NoResponse, init, shut, << >>, "unhashable type: 'list'")
        ELSE IF tool_name \in ToolHandlers
        THEN HandlerOutcome(req_id, CallHandler(tool_name, arguments), init, shut,
                            << [tool |-> tool_name, arguments |-> arguments] >>)
        ELSE ToolNotFound(req_id, tool_name, init, shut)

\* The initialize branch of _handle_request.
HandleInitialize(req_id, init, shut) ==
    Handled(IF req_id # None
            THEN ResultResponse(req_id, CreateCapabilities)
            ELSE NoResponse,
            TRUE, shut, << >>, None)

\* Mutant of HandleShutdown: the response is built, the flag is not set.
HandleShutdownKeepsRunning(req_id, init, shut) ==
    Handled(IF req_id # None THEN ResultResponse(req_id, JNull) ELSE NoResponse,
            init, shut, << >>, None)

\* Mutant of HandleShutdown: a notification is answered too.
HandleShutdownAnswersNotification(req_id, init, shut) ==
    Handled(ResultResponse(req_id, JNull), init, TRUE, << >>, None)

\* The shutdown branch of _handle_request.
HandleShutdown(req_id, init, shut) ==
    Handled(IF req_id # None THEN ResultResponse(req_id, JNull) ELSE NoResponse,
            init, TRUE, << >>, None)

\* Mutant of HandleExit: the flag is left as it was.
HandleExitKeepsRunning(req_id, init, shut) ==
    Handled(NoResponse, init, shut, << >>, None)

\* The exit branch of _handle_request.
HandleExit(req_id, init, shut) ==
    Handled(NoResponse, init, TRUE, << >>, None)

\* Mutant of HandleOther: the id is tested before the "$/" prefix.
HandleOtherAnswersReserved(request, init, shut) ==
    LET method == request.method
        req_id == request.id
    IN  IF Truthy(request) /\ request.mtype # "str"
        THEN Handled(NoResponse, init, shut, << >>,
                     "'int' object has no attribute 'startswith'")
        ELSE IF req_id # None
        THEN Handled(ErrorResponse(req_id, MethodNotFoundCode,
                                   "Method not found: " \o method),
                     init, shut, << >>, None)
        ELSE Handled(NoResponse, init, shut, << >>, None)

\* The last branch of _handle_request: "$/" methods, unknown methods.
\* method.startswith raises AttributeError when method is not a string.
HandleOther(request, init, shut) ==
    LET method == request.method
        req_id == request.id
    IN  IF Truthy(request) /\ request.mtype # "str"
        THEN Handled(NoResponse, init, shut, << >>,
                     "'int' object has no attribute 'startswith'")
        ELSE IF Truthy(request) /\ StartsWithDollarSlash(method)
        THEN Handled(NoResponse, init, shut, << >>, None)
        ELSE IF req_id # None
        THEN Handled(ErrorResponse(req_id, MethodNotFoundCode,
                                   "Method not found: " \o method),
                     init, shut, << >>, None)
        ELSE Handled(NoResponse, init, shut, << >>, None)

\* McpBaseServer._handle_request
HandleRequest(request, init, shut) ==
    LET method == request.method
        req_id == request.id
        isstr == request.mtype = "str"
    IN  IF isstr /\ method = "initialize"
        THEN HandleInitialize(req_id, init, shut)
        ELSE IF isstr /\ method = "shutdown"
        THEN HandleShutdown(req_id, init, shut)
        ELSE IF isstr /\ method = "exit"
        THEN HandleExit(req_id, init, shut)
        ELSE IF isstr /\ method \in {"tool/execute", "mcp/tool/execute"}
        THEN ToolExecute(request, init, shut)
        ELSE HandleOther(request, init, shut)

\* The recovery of an id from the body text in _run_message_loop's handler of
\* unexpected exceptions: re.search(r'"id"\s*:\s*([0-9]+|"[^"]*")', content_text)
\* takes the first "id" member of the text whose value is an integer or string
\* literal, at any depth.  A null value does not match.
IdMembers(body) ==
    LET top == IF body.id = None THEN << >> ELSE << body.id >>
        nested == IF body.params.isdict /\ body.params.id # None
                  THEN << body.params.id >> ELSE << >>
    IN  IF body.params_first THEN nested \o top ELSE top \o nested

ExtractId(body) ==
    IF IdMembers(body) = << >> THEN None ELSE Head(IdMembers(body))

-----------------------------------------------------------------------------
(* Response writer *)

\* What raw_stdout does with the writes of one _send_response call:
\*   "single"          write(header + body) succeeds
\*   "fallback"        write(header + body) raises IOError with nothing written,
\*                     then write(header) and write(body) succeed
\*   "fallback_header" as "fallback", but write(body) raises
\*   "lost"            write(header + body) raises and so does write(header), or
\*                     it raises something other than AttributeError / IOError,
\*                     or json.dumps raises
\*   "short_header"    write(header + body) returns after a part of the header
\*   "short_body"      write(header + body) returns after a part of the body
\* raw_stdout is unbuffered (line 31): its write is one write(2).  On a
\* descriptor that blocks, write(2) returns the count of bytes taken so far
\* when a signal arrives after some of them were taken; the handler of lines
\* 425-428 runs, write returns the count, and line 269 drops it.
WriteOutcomes ==
    {"single", "fallback", "fallback_header", "lost", "short_header", "short_body"}

\* json.dumps escapes of a str value, character by character (the texts of
\* the model are ASCII without control characters, so the remaining escapes
\* of ensure_ascii never apply and one character of output is one byte).
\* (Computed by halves to keep the evaluation shallow.)
RECURSIVE EscapeJson(_)
EscapeJson(text) ==
    IF Len(text) = 0 THEN ""
    ELSE IF Len(text) = 1
    THEN IF text = "\"" THEN "\\\""
         ELSE IF text = "\\" THEN "\\\\"
         ELSE text
    ELSE EscapeJson(SubSeq(text, 1, Len(text) \div 2))
         \o EscapeJson(SubSeq(text, Len(text) \div 2 + 1, Len(text)))

DumpsStr(text) == "\"" \o EscapeJson(text) \o "\""

\* json.dumps of a list of tool descriptors.
RECURSIVE DumpsTools(_)
DumpsTools(tools) ==
    IF Len(tools) = 0 THEN ""
    ELSE "{\"name\": " \o DumpsStr(tools[1].name)
         \o ", \"description\": " \o DumpsStr(tools[1].description) \o "}"
         \o (IF Len(tools) > 1 THEN ", " ELSE "")
         \o DumpsTools(Tail(tools))

\* json.dumps of a "result" value: null, a handler's {"message": ...}, or the
\* capabilities of _create_capabilities.
DumpsResult(result) ==
    IF "null" \in DOMAIN result THEN "null"
    ELSE IF "message" \in DOMAIN result
    THEN "{\"message\": " \o DumpsStr(result.message) \o "}"
    ELSE "{\"serverInfo\": {\"name\": " \o DumpsStr(result.serverInfo.name)
         \o ", \"version\": " \o DumpsStr(result.serverInfo.version)
         \o "}, \"capabilities\": {\"tools\": ["
         \o DumpsTools(result.capabilities.tools)
         \o "], \"resources\": []}, \"status\": "
         \o DumpsStr(result.status) \o "}"

\* json.dumps(response) (line 256): keys in insertion order, ", " and ": " as
\* separators; the id is written as the literal it was read as.
Dumps(resp) ==
    "{\"jsonrpc\": \"2.0\", \"id\": " \o resp.id \o ", "
    \o (IF "result" \in resp.keys
        THEN "\"result\": " \o DumpsResult(resp.result)
        ELSE "\"error\": {\"code\": " \o ToString(resp.error.code)
             \o ", \"message\": " \o DumpsStr(resp.error.message) \o "}")
    \o "}"

\* f"Content-Length: {content_length}\r\n\r\n" (line 261).
ContentLengthHeader(length) ==
    "Content-Length: " \o ToString(length) \o "\r\n\r\n"

\* The bytes one raw_stdout.write puts on the stream: header and body at once
\* (line 269), the header alone (line 275), the body alone (line 278), or the
\* leading bytes of header and body when the write at line 269 is cut short
\* (one count inside the header and one inside the body stand for all counts).
WriteBytes(part, resp) ==
    LET response_bytes == Dumps(resp)
        header == ContentLengthHeader(Len(response_bytes))
    IN  IF part = "frame" THEN header \o response_bytes
        ELSE IF part = "header" THEN header
        ELSE IF part = "body" THEN response_bytes
        ELSE IF part = "short_header"
        THEN SubSeq(header, 1, Len(header) \div 2)
        ELSE SubSeq(header \o response_bytes, 1,
                    Len(header) + Len(response_bytes) \div 2)

\* One raw_stdout.write, as the state keeps it: which part of which response
\* (its bytes are WriteBytes of the two).
WriteOp(part, resp) == [part |-> part, response |-> resp]

\* Mutant of SendResponse: the fallback writes follow a successful single write.
SendResponseAlwaysFallsBack(resp, outcome) ==
    IF outcome = "single"
    THEN << WriteOp("frame", resp), WriteOp("header", resp), WriteOp("body", resp) >>
    ELSE IF outcome = "fallback"
    THEN << WriteOp("header", resp), WriteOp("body", resp) >>
    ELSE IF outcome = "fallback_header" THEN << WriteOp("header", resp) >>
    ELSE IF outcome \in {"short_header", "short_body"}
    THEN << WriteOp(outcome, resp) >>
    ELSE << >>

\* McpBaseServer._send_response: the write operations that reach raw_stdout.
\* Nothing is raised to the caller whatever the outcome.
SendResponse(resp, outcome) ==
    IF outcome = "single" THEN << WriteOp("frame", resp) >>
    ELSE IF outcome = "fallback"
    THEN << WriteOp("header", resp), WriteOp("body", resp) >>
    ELSE IF outcome = "fallback_header" THEN << WriteOp("header", resp) >>
    ELSE IF outcome \in {"short_header", "short_body"}
    THEN << WriteOp(outcome, resp) >>
    ELSE << >>

\* The record `out` keeps of a write: which read it answers, the id, the part.
Logged(w, n) == [n |-> n, id |-> w.response.id, part |-> w.part]

LogAll(ws, n) == [i \in 1..Len(ws) |-> Logged(ws[i], n)]

-----------------------------------------------------------------------------
(* Framer, as the loop sees it *)

NoContent == [nocontent |-> TRUE]

\* McpBaseServer._read_header_and_content: (header_text, content_text), or
\* (None, None) at end of input, on a header over 4096 bytes, on a header
\* without Content-Length, on a body cut short and on bytes that are not UTF-8.
\* (After the escaped terminator a body cut short is returned as it is: at
\* this level that input is a "frame" item whose body is the part received.
\* FramerSpec below follows the same function byte by byte.)
ReadHeaderAndContent(item) ==
    IF item.kind = "frame"
    THEN [header_text |-> "Content-Length", content_text |-> item.body]
    ELSE [header_text |-> None, content_text |-> NoContent]

-----------------------------------------------------------------------------
(* Following the scenario of the spec's section 8 *)

ScenarioStep(k, item) ==
    IF /\ k >= 0
       /\ k < Len(Scenario)
       /\ item = [kind |-> "frame", body |-> Scenario[k + 1]]
    THEN k + 1 ELSE -1

\* No request has been served yet (ServersSpec).
NothingServed == [method |-> None]

\* The paths the filesystem tools are called with, relative to the working
\* directory of the server: a file name, a directory name and a name below it.
Paths == {"a", "d", "d/b"}

\* What a path holds: nothing, a directory, or a file and its bytes.  Bytes
\* and characters are classes: "c" an ordinary character, "CR" and "LF" the
\* two line ends, "SUR" a lone surrogate (a JSON string may hold one, UTF-8
\* cannot encode it).
NoEntry == [kind |-> "none", bytes |-> << >>]

Directory == [kind |-> "dir", bytes |-> << >>]

File(bytes) == [kind |-> "file", bytes |-> bytes]

\* fs_last before any tool was called.
NoCall ==
    [op |-> "none", path |-> "", text |-> << >>, ok |-> FALSE, error |-> "",
     content |-> << >>]

-----------------------------------------------------------------------------
(* State machine *)

\* McpBaseServer.__init__ and the entry of run()
Init ==
    /\ initialized = FALSE
    /\ shutdown_requested = FALSE
    /\ pc = "top"
    /\ cur = NoItem
    /\ content_text = NoContent
    /\ response = NoResponse
    /\ out = << >>
    /\ wrote = << >>
    /\ invoked = << >>
    /\ nread = 0
    /\ signalled = FALSE
    /\ writeFailed = FALSE
    /\ scen = 0
    /\ stream = << >>
    /\ pending = << >>
    /\ closed = FALSE
    /\ header_data = << >>
    /\ content_length = 0
    /\ fed = 0
    /\ server = None
    /\ tool_handlers = {}
    /\ srv_pc = "main"
    /\ served = NothingServed
    /\ emb_pc = "start"
    /\ emb_cur = NoItem
    /\ emb_out = << >>
    /\ emb_nread = 0
    /\ files = [p \in Paths |-> NoEntry]
    /\ fs_last = NoCall

\* Mutant of LoopTest: the loop never looks at the flag.
LoopTestReadsOn ==
    /\ pc = "top"
    /\ pc' = "read"
    /\ UNCHANGED << initialized, shutdown_requested, cur, content_text, response,
                    out, wrote, invoked, nread, signalled, writeFailed, scen >>
    /\ UNCHANGED framerVars
    /\ UNCHANGED otherVars

\* `while not self._shutdown_requested`
LoopTest ==
    /\ pc = "top"
    /\ pc' = IF shutdown_requested THEN "done" ELSE "read"
    /\ UNCHANGED << initialized, shutdown_requested, cur, content_text, response,
                    out, wrote, invoked, nread, signalled, writeFailed, scen >>
    /\ UNCHANGED framerVars
    /\ UNCHANGED otherVars

\* Mutant of AfterRead: a failed read never requests shutdown.
AfterReadKeepsRunning(r, shut) ==
    IF r.header_text = None \/ r.content_text = NoContent
    THEN [pc |-> "top", shutdown_requested |-> shut]
    ELSE [pc |-> "decode", shutdown_requested |-> shut]

\* What the loop does with the framer's return value (lines 341-350): a failed
\* read with both texts empty requests shutdown.
AfterRead(r, shut) ==
    IF r.header_text = None \/ r.content_text = NoContent
    THEN [pc |-> "top",
          shutdown_requested |->
              IF r.header_text = None /\ r.content_text = NoContent
              THEN TRUE ELSE shut]
    ELSE [pc |-> "decode", shutdown_requested |-> shut]

\* One call of _read_header_and_content; the stream holds `item` next.
ReadMessage(item) ==
    /\ pc = "read"
    /\ item.kind # "eof" => nread < MaxReads
    /\ LET r == ReadHeaderAndContent(item)
           a == AfterRead(r, shutdown_requested)
       IN  /\ pc' = a.pc
           /\ shutdown_requested' = a.shutdown_requested
           /\ content_text' = r.content_text
    /\ cur' = item
    /\ nread' = nread + 1
    /\ response' = NoResponse
    /\ wrote' = << >>
    /\ invoked' = << >>
    /\ scen' = ScenarioStep(scen, item)
    /\ UNCHANGED << initialized, out, signalled, writeFailed >>
    /\ UNCHANGED framerVars
    /\ UNCHANGED otherVars

\* What the loop does with a body (lines 352-412): json.loads, the object test,
\* _handle_request, and the handler of unexpected exceptions.
Processed(body, init, shut) ==
    IF body.json = "raises"
    THEN Handled(IF ExtractId(body) # None
                 THEN ErrorResponse(ExtractId(body), InternalErrorCode,
                                    "Internal error: " \o body.exc)
                 ELSE NoResponse,
                 init, shut, << >>, None)
    ELSE IF body.json # "object"
    THEN Handled(NoResponse, init, shut, << >>, None)
    ELSE LET h == HandleRequest(body, init, shut)
             request_id == ExtractId(body)
         IN  IF h.raised = None THEN h
             ELSE [h EXCEPT !.response =
                     IF request_id # None
                     THEN ErrorResponse(request_id, InternalErrorCode,
                                        "Internal error: " \o h.raised)
                     ELSE NoResponse]

ProcessMessage ==
    /\ pc = "decode"
    /\ LET h == Processed(content_text, initialized, shutdown_requested)
       IN  /\ initialized' = h.initialized
           \* a signal delivered meanwhile is never undone by the dispatcher
           /\ shutdown_requested' = h.shutdown_requested
           /\ invoked' = h.invoked
           /\ response' = h.response
           /\ pc' = IF h.response = NoResponse THEN "top" ELSE "send"
    /\ UNCHANGED << cur, content_text, out, wrote, nread, signalled,
                    writeFailed, scen >>
    /\ UNCHANGED framerVars
    /\ UNCHANGED otherVars

\* The outcomes in which a signal arrives inside the write.
SignalInWrite(outcome) == outcome \in {"short_header", "short_body"}

\* Mutant of Send: a write that raises ends the loop.
SendFailureEndsLoop(outcome) ==
    /\ pc = "send"
    /\ LET ws == SendResponse(response, outcome)
       IN  /\ wrote' = wrote \o ws
           /\ out' = out \o LogAll(ws, nread)
    /\ writeFailed' = (writeFailed \/ outcome \notin {"single", "fallback"})
    /\ signalled' = (signalled \/ SignalInWrite(outcome))
    /\ shutdown_requested' = (shutdown_requested \/ SignalInWrite(outcome))
    /\ pc' = IF outcome \in {"fallback_header", "lost"} THEN "done" ELSE "top"
    /\ UNCHANGED << initialized, cur, content_text, response, invoked, nread,
                    scen >>
    /\ UNCHANGED framerVars
    /\ UNCHANGED otherVars

\* One call of _send_response (line 376 or line 412).
Send(outcome) ==
    /\ pc = "send"
    /\ LET ws == SendResponse(response, outcome)
       IN  /\ wrote' = wrote \o ws
           /\ out' = out \o LogAll(ws, nread)
    /\ writeFailed' = (writeFailed \/ outcome \notin {"single", "fallback"})
    /\ signalled' = (signalled \/ SignalInWrite(outcome))
    /\ shutdown_requested' = (shutdown_requested \/ SignalInWrite(outcome))
    /\ pc' = "top"
    /\ UNCHANGED << initialized, cur, content_text, response, invoked, nread,
                    scen >>
    /\ UNCHANGED framerVars
    /\ UNCHANGED otherVars

\* McpBaseServer._signal_handler, run on SIGINT or SIGTERM between two steps.
SignalHandler ==
    /\ pc # "done"
    /\ shutdown_requested' = TRUE
    /\ signalled' = TRUE
    /\ UNCHANGED << initialized, pc, cur, content_text, response, out, wrote,
                    invoked, nread, writeFailed, scen >>
    /\ UNCHANGED framerVars
    /\ UNCHANGED otherVars

Next ==
    \/ LoopTest
    \/ \E item \in Items : ReadMessage(item)
    \/ ProcessMessage
    \/ \E outcome \in WriteOutcomes : Send(outcome)
    \/ SignalHandler

Spec == Init /\ [][Next]_vars

-----------------------------------------------------------------------------
(* The framer byte by byte: _read_header_and_content, lines 430-570.       *)
(* A byte is a short string.  The field name "Content-Length: " is kept as *)
(* one element of the stream; every other element is one byte.             *)

CR == "CR"
LF == "LF"
Backslash == "BS"
ContentLengthField == "Content-Length: "
\* A byte that occurs in no UTF-8 text.
InvalidByte == "FF"

DigitChars == << "0", "1", "2", "3", "4", "5", "6", "7", "8", "9" >>

\* The three header terminators the framer looks for (lines 463, 467, 474).
CRLFCRLF == << CR, LF, CR, LF >>
LFLF == << LF, LF >>
EscapedTerminator ==
    << Backslash, "r", Backslash, "n", Backslash, "r", Backslash, "n" >>

\* `if len(header_data) > 4096`.  The headers of WireFrames stay below the
\* cap; what the loop does when it is passed is in Spec (item kind "oversize").
HeaderCap == 4096

\* Python's `pat in data` and `data.find(pat)` (0-based, -1 when absent).
Occurrences(data, pat) ==
    { i \in 1..(Len(data) - Len(pat) + 1) : SubSeq(data, i, i + Len(pat) - 1) = pat }

Contains(data, pat) == Occurrences(data, pat) # {}

Find(data, pat) ==
    IF Occurrences(data, pat) = {} THEN -1
    ELSE (CHOOSE i \in Occurrences(data, pat) :
             \A j \in Occurrences(data, pat) : i <= j) - 1

IsDigit(b) == \E i \in 1..Len(DigitChars) : DigitChars[i] = b

DigitValue(b) == (CHOOSE i \in 1..Len(DigitChars) : DigitChars[i] = b) - 1

\* The maximal run of digits of `data` from position i on: the group (\d+).
RECURSIVE DigitRun(_, _)
DigitRun(data, i) ==
    IF i <= Len(data) /\ IsDigit(data[i])
    THEN << data[i] >> \o DigitRun(data, i + 1)
    ELSE << >>

\* int() of a run of decimal digits.
RECURSIVE IntOf(_)
IntOf(digits) ==
    IF Len(digits) = 0 THEN 0
    ELSE 10 * IntOf(SubSeq(digits, 1, Len(digits) - 1))
         + DigitValue(digits[Len(digits)])

\* re.search(rb'Content-Length: (\d+)', data): the leftmost field name that
\* is followed by a digit, with the digits after it.
ReSearchContentLength(data) ==
    LET starts == { i \in 1..(Len(data) - 1) :
                      data[i] = ContentLengthField /\ IsDigit(data[i + 1]) }
    IN  IF starts = {} THEN [matched |-> FALSE]
        ELSE LET i == CHOOSE i \in starts : \A j \in starts : i <= j
             IN  [matched |-> TRUE, group |-> DigitRun(data, i + 1)]

\* bytes.decode('utf-8') succeeds.
Utf8Ok(data) == \A i \in 1..Len(data) : data[i] # InvalidByte

\* `return None, None`
FramerFailure == [header_text |-> None, content_text |-> NoContent]

\* The two decode-and-return blocks (lines 509-518 and 561-570).  The loop
\* only tests the header text against None; the content is kept as bytes.
Decoded(header, content) ==
    IF Utf8Ok(header) /\ Utf8Ok(content)
    THEN [header_text |-> "Content-Length", content_text |-> [bytes |-> content]]
    ELSE FramerFailure

\* Lines 479-482: the position after the escaped terminator and what of
\* header_data lies behind it.
EscapedPos(data) == Find(data, EscapedTerminator) + 8

ContentStart(data) == SubSeq(data, EscapedPos(data) + 1, Len(data))

\* raw_stdin is unbuffered (line 30): read(n) is one read of the pipe.  It
\* returns at once for n = 0, waits while the pipe is empty and open, and
\* otherwise returns what the pipe holds, at most n bytes (nothing at the end
\* of the input).
CanRead(n) == n = 0 \/ Len(stream) > 0 \/ closed

RawRead(n) == SubSeq(stream, 1, IF n < Len(stream) THEN n ELSE Len(stream))

AfterRawRead(n) == SubSeq(stream, Len(RawRead(n)) + 1, Len(stream))

\* Where the framer goes on: in its header loop, at one of its two body
\* reads, or back to the message loop with a return value.
Continues(at, length) == [at |-> at, content_length |-> length]

Returns(r) == [at |-> "return", result |-> r]

\* The body of the header loop after `header_data += chunk` (lines 462-524).
AfterHeaderByte(data) ==
    IF Contains(data, CRLFCRLF) \/ Contains(data, LFLF)
    THEN LET match == ReSearchContentLength(data)
         IN  IF ~match.matched THEN Returns(FramerFailure)
             ELSE Continues("body", IntOf(match.group))
    ELSE IF Contains(data, EscapedTerminator)
    THEN LET match == ReSearchContentLength(data)
         IN  IF ~match.matched THEN Returns(FramerFailure)
             ELSE IF IntOf(match.group) - Len(ContentStart(data)) > 0
             THEN Continues("rest", IntOf(match.group))
             ELSE Returns(Decoded(SubSeq(data, 1, EscapedPos(data)),
                                  ContentStart(data)))
    ELSE IF Len(data) > HeaderCap THEN Returns(FramerFailure)
    ELSE Continues("header", content_length)

\* The framer moves on, or returns to line 341 where the loop acts on the
\* value returned.
FramerGoes(to) ==
    IF to.at = "return"
    THEN LET a == AfterRead(to.result, shutdown_requested)
         IN  /\ pc' = a.pc
             /\ shutdown_requested' = a.shutdown_requested
             /\ content_text' = to.result.content_text
             /\ UNCHANGED content_length
    ELSE /\ pc' = to.at
         /\ content_length' = to.content_length
         /\ UNCHANGED << shutdown_requested, content_text >>

\* Line 341 calls the framer; line 436.  A frame the host started during an
\* earlier call is from now on an old one.
FramerEnter ==
    /\ UNCHANGED otherVars
    /\ pc = "read"
    /\ pc' = "header"
    /\ header_data' = << >>
    /\ cur' = IF cur.kind = "bytes" THEN [cur EXCEPT !.old = TRUE] ELSE cur
    /\ UNCHANGED << initialized, shutdown_requested, content_text, response,
                    out, wrote, invoked, nread, signalled, writeFailed, scen,
                    stream, pending, closed, content_length, fed >>

\* One turn of the header loop (lines 443-524).
ReadHeaderByte ==
    /\ UNCHANGED otherVars
    /\ pc = "header"
    /\ CanRead(1)
    /\ LET chunk == RawRead(1)
       IN  IF Len(chunk) = 0
           THEN /\ FramerGoes(Returns(FramerFailure))
                /\ UNCHANGED header_data
           ELSE /\ FramerGoes(AfterHeaderByte(header_data \o chunk))
                /\ header_data' = header_data \o chunk
    /\ stream' = AfterRawRead(1)
    /\ UNCHANGED << initialized, cur, response, out, wrote, invoked, nread,
                    signalled, writeFailed, scen, pending, closed, fed >>

\* The body read after a CR-LF-CR-LF or LF-LF terminator (lines 550-570).
ReadBody ==
    /\ UNCHANGED otherVars
    /\ pc = "body"
    /\ CanRead(content_length)
    /\ LET content_data == RawRead(content_length)
       IN  FramerGoes(Returns(IF Len(content_data) # content_length
                              THEN FramerFailure
                              ELSE Decoded(header_data, content_data)))
    /\ stream' = AfterRawRead(content_length)
    /\ UNCHANGED << initialized, cur, response, out, wrote, invoked, nread,
                    signalled, writeFailed, scen, pending, closed, header_data,
                    fed >>

\* The body read after the escaped terminator (lines 496-518).
ReadRest ==
    /\ UNCHANGED otherVars
    /\ pc = "rest"
    /\ LET content_start == ContentStart(header_data)
           bytes_needed == content_length - Len(content_start)
           remaining_content == RawRead(bytes_needed)
       IN  /\ CanRead(bytes_needed)
           /\ FramerGoes(Returns(
                  Decoded(SubSeq(header_data, 1, EscapedPos(header_data)),
                          content_start \o remaining_content)))
           /\ stream' = AfterRawRead(bytes_needed)
    /\ UNCHANGED << initialized, cur, response, out, wrote, invoked, nread,
                    signalled, writeFailed, scen, pending, closed, header_data,
                    fed >>

\* What handling a body can do to the two flags (lines 352-412), the body
\* being opaque at this level: nothing, what `initialize` does, or what
\* `shutdown` and `exit` do.
Effects == {"none", "initialize", "shutdown"}

DispatchBytes(effect) ==
    /\ pc = "decode"
    /\ pc' = "top"
    /\ initialized' = (initialized \/ effect = "initialize")
    /\ shutdown_requested' = (shutdown_requested \/ effect = "shutdown")
    /\ UNCHANGED << cur, content_text, response, out, wrote, invoked, nread,
                    signalled, writeFailed, scen >>
    /\ UNCHANGED framerVars
    /\ UNCHANGED otherVars

\* The frames a host writes: a header in one of the three styles, then a body.
Styles == {"crlf", "lf", "escaped"}

Terminator(style) ==
    IF style = "crlf" THEN CRLFCRLF
    ELSE IF style = "lf" THEN LFLF
    ELSE EscapedTerminator

FrameBodies == { << "a", "b" >>, << LF, LF >>, << "a", InvalidByte >>, << >> }

\* "Content-Length: N" with N the length of the body, or a header without it.
HeaderOf(style, body, named) ==
    (IF named THEN << ContentLengthField, DigitChars[Len(body) + 1] >>
     ELSE << "X" >>)
    \o Terminator(style)

WireFrames ==
    { [style |-> s, header |-> HeaderOf(s, b, TRUE), body |-> b] :
          s \in Styles, b \in FrameBodies }
    \cup { [style |-> "crlf", header |-> HeaderOf("crlf", << "a", "b" >>, FALSE),
            body |-> << "a", "b" >>] }

\* The host starts its next frame while the server waits for input on an
\* empty pipe.  `aligned`: the server is at the start of a header.
HostStartsFrame(frame) ==
    /\ UNCHANGED otherVars
    /\ pc \in {"header", "body", "rest"}
    /\ Len(stream) = 0
    /\ Len(pending) = 0
    /\ ~closed
    /\ fed < MaxFrames
    /\ pending' = frame.header \o frame.body
    /\ cur' = [kind |-> "bytes", style |-> frame.style, header |-> frame.header,
               body |-> frame.body, sent |-> 0, old |-> FALSE,
               aligned |-> (pc = "header" /\ Len(header_data) = 0)]
    /\ fed' = fed + 1
    /\ UNCHANGED << initialized, shutdown_requested, pc, content_text, response,
                    out, wrote, invoked, nread, signalled, writeFailed, scen,
                    stream, closed, header_data, content_length >>

\* The host writes the next k bytes of its frame into the pipe.
HostWrites(k) ==
    /\ UNCHANGED otherVars
    /\ ~closed
    /\ k \in 1..Len(pending)
    /\ stream' = stream \o SubSeq(pending, 1, k)
    /\ pending' = SubSeq(pending, k + 1, Len(pending))
    /\ cur' = [cur EXCEPT !.sent = @ + k]
    /\ UNCHANGED << initialized, shutdown_requested, pc, content_text, response,
                    out, wrote, invoked, nread, signalled, writeFailed, scen,
                    closed, header_data, content_length, fed >>

\* The host closes the pipe; what it had not written is never written.
HostCloses ==
    /\ UNCHANGED otherVars
    /\ ~closed
    /\ closed' = TRUE
    /\ pending' = << >>
    /\ UNCHANGED << initialized, shutdown_requested, pc, cur, content_text,
                    response, out, wrote, invoked, nread, signalled, writeFailed,
                    scen, stream, header_data, content_length, fed >>

\* The steps of the server's single thread at this level.
FramerStep ==
    \/ LoopTest
    \/ FramerEnter
    \/ ReadHeaderByte
    \/ ReadBody
    \/ ReadRest
    \/ \E effect \in Effects : DispatchBytes(effect)

FramerNext ==
    \/ FramerStep
    \/ \E frame \in WireFrames : HostStartsFrame(frame)
    \/ \E k \in 1..Len(pending) : HostWrites(k)
    \/ HostCloses

\* The thread runs whenever it is not waiting for input.
FramerSpec == Init /\ [][FramerNext]_vars /\ WF_vars(FramerStep)

-----------------------------------------------------------------------------
(* The shipped servers: what main() advertises and what it registers *)

\* ServersSpec follows main() of a shipped server: McpBaseServer(name,
\* version, tools), the register_tool calls in their order, run(); then the
\* running server answers `initialize` and `tool/execute` requests.  The tool
\* handlers work on the operating system: at this level a call returns some
\* result or raises.

Descriptor(name, description) == [name |-> name, description |-> description]

\* The same with the "schema": None member the command and filesystem servers add.
DescriptorWithSchema(name, description) ==
    [name |-> name, description |-> description, schema |-> None]

\* command_mcp.py, main()
CommandMain ==
    [name |-> "command-mcp", version |-> "1.0.0",
     tools |-> << DescriptorWithSchema("execute_command",
                      "Executes a shell command and returns its output"),
                  DescriptorWithSchema("get_environment_variable",
                      "Gets the value of an environment variable") >>,
     registers |-> << "execute_command", "get_environment_variable" >>]

\* Mutant of FilesystemMain: delete_file is advertised and never registered.
FilesystemMainForgetsDelete ==
    [name |-> "filesystem-mcp", version |-> "1.0.0",
     tools |-> << DescriptorWithSchema("list_directory", "Lists files in a directory"),
                  DescriptorWithSchema("read_file", "Reads the content of a file"),
                  DescriptorWithSchema("write_file", "Writes content to a file"),
                  DescriptorWithSchema("delete_file", "Deletes a file or directory"),
                  DescriptorWithSchema("get_current_dir",
                      "Gets the current working directory") >>,
     registers |-> << "list_directory", "read_file", "write_file",
                      "get_current_dir" >>]

\* filesystem_mcp.py, main()
FilesystemMain ==
    [name |-> "filesystem-mcp", version |-> "1.0.0",
     tools |-> << DescriptorWithSchema("list_directory", "Lists files in a directory"),
                  DescriptorWithSchema("read_file", "Reads the content of a file"),
                  DescriptorWithSchema("write_file", "Writes content to a file"),
                  DescriptorWithSchema("delete_file", "Deletes a file or directory"),
                  DescriptorWithSchema("get_current_dir",
                      "Gets the current working directory") >>,
     registers |-> << "list_directory", "read_file", "write_file", "delete_file",
                      "get_current_dir" >>]

\* memstore.py, main(): the facade advertises nothing and registers nothing.
MemstoreMain ==
    [name |-> "memory-store-mcp", version |-> "1.0.0",
     tools |-> << >>, registers |-> << >>]

\* base_server.py, EchoServer.__init__
EchoMain ==
    [name |-> ServerName, version |-> ServerVersion,
     tools |-> << Descriptor("echo", "Echoes back the input"),
                  Descriptor("fail", "A tool designed to fail") >>,
     registers |-> << "echo", "fail" >>]

ShippedServers == {CommandMain, FilesystemMain, MemstoreMain, EchoMain}

MainOf(name) == CHOOSE m \in ShippedServers : m.name = name

\* The names a server's `initialize` result advertises.
Advertised(m) == { m.tools[i].name : i \in 1..Len(m.tools) }

\* The tool names a host may ask for: every name some shipped server
\* advertises, and one that none does.
AskedNames ==
    UNION { Advertised(m) : m \in ShippedServers } \cup {"nope"}

\* _create_capabilities of the server built by main `m`.
CapabilitiesOf(m) ==
    [serverInfo |-> [name |-> m.name, version |-> m.version],
     capabilities |-> [tools |-> m.tools, resources |-> << >>],
     status |-> "initialized"]

\* What a handler call can come to, the handler working on the system.
HandlerEnds == {"returns", "raises"}

\* The structured result of a tool, and the text of its failure, as opaque
\* values.
ResultOf(tool_name) == [tool |-> tool_name]
FailureOf(tool_name) == "failure of " \o tool_name

\* The tool/execute branch of _handle_request (lines 183-225) over the
\* handlers registered so far, for a request with an id.
ExecuteWith(handlers, req_id, tool_name, ends) ==
    IF tool_name \in handlers
    THEN IF ends = "returns"
         THEN ResultResponse(req_id, ResultOf(tool_name))
         ELSE ErrorResponse(req_id, ToolExecutionErrorCode,
                            "Tool execution error: " \o FailureOf(tool_name))
    ELSE ErrorResponse(req_id, ToolNotFoundCode, "Tool not found: " \o tool_name)

\* main() builds the server: McpBaseServer.__init__ (lines 62-72).
Construct(m) ==
    /\ srv_pc = "main"
    /\ server' = m.name
    /\ tool_handlers' = {}
    /\ srv_pc' = "register"
    /\ UNCHANGED served
    /\ UNCHANGED << loopVars, framerVars, embVars, fsVars >>

\* The next register_tool call of main() (lines 107-110).
RegisterTool ==
    /\ srv_pc = "register"
    /\ Cardinality(tool_handlers) < Len(MainOf(server).registers)
    /\ tool_handlers' =
           tool_handlers
           \cup { MainOf(server).registers[Cardinality(tool_handlers) + 1] }
    /\ UNCHANGED << server, srv_pc, served >>
    /\ UNCHANGED << loopVars, framerVars, embVars, fsVars >>

\* server.run(), once every registration of main() is made.
Run ==
    /\ srv_pc = "register"
    /\ Cardinality(tool_handlers) = Len(MainOf(server).registers)
    /\ srv_pc' = "run"
    /\ UNCHANGED << server, tool_handlers, served >>
    /\ UNCHANGED << loopVars, framerVars, embVars, fsVars >>

\* The running server answers an `initialize` request.
ServeInitialize(req_id) ==
    /\ srv_pc = "run"
    /\ served' = [method |-> "initialize", id |-> req_id, tool_name |-> None,
                  response |-> ResultResponse(req_id,
                                              CapabilitiesOf(MainOf(server)))]
    /\ UNCHANGED << server, tool_handlers, srv_pc >>
    /\ UNCHANGED << loopVars, framerVars, embVars, fsVars >>

\* The running server answers a `tool/execute` request.
ServeToolExecute(req_id, tool_name, ends) ==
    /\ srv_pc = "run"
    /\ served' = [method |-> "tool/execute", id |-> req_id,
                  tool_name |-> tool_name,
                  response |-> ExecuteWith(tool_handlers, req_id, tool_name, ends)]
    /\ UNCHANGED << server, tool_handlers, srv_pc >>
    /\ UNCHANGED << loopVars, framerVars, embVars, fsVars >>

ServersNext ==
    \/ \E m \in ShippedServers : Construct(m)
    \/ RegisterTool
    \/ Run
    \/ \E req_id \in Ids : ServeInitialize(req_id)
    \/ \E req_id \in Ids, tool_name \in AskedNames, ends \in HandlerEnds :
           ServeToolExecute(req_id, tool_name, ends)

ServersSpec == Init /\ [][ServersNext]_vars

-----------------------------------------------------------------------------
(* The embedding server: mcp_embedding_server/server.py, handle_jsonrpc *)

\* EmbSpec works message by message, like Spec.  The libraries the server
\* calls (jsonrpcserver's dispatch, the model behind embed) are outside the
\* repository: a call of theirs returns or raises, and what dispatch returns
\* is a mapping send_response can write, or something it cannot.

\* Bodies of the frames the host sends.  params_isdict: "params" is a JSON
\* object (or is not there).
EmbRequest(m, i, d, tn) ==
    [json |-> "object", method |-> m, id |-> i, params_isdict |-> d,
     tool_name |-> tn]

EmbBodies ==
    { [json |-> "invalid"], [json |-> "array"] }
    \cup { EmbRequest(m, i, TRUE, None) :
             m \in {"initialize", "shutdown", "exit", "capabilities"},
             i \in {"1", None} }
    \cup { EmbRequest("tool/execute", i, TRUE, tn) :
             i \in {"1", None}, tn \in {"embed", "nope"} }
    \cup { EmbRequest("tool/execute", "1", FALSE, None) }

\* What one pass of the loop finds on the input: the end of the input before
\* a header line, headers without Content-Length, the end of the input inside
\* a body, or a whole frame.
EmbItems ==
    { [kind |-> k] : k \in {"eof", "nolength", "eof_in_body"} }
    \cup { [kind |-> "frame", body |-> b] : b \in EmbBodies }

\* The id member of a response: request.get("id"), None being written as null.
EmbId(body) == IF body.id = None THEN "null" ELSE body.id

\* The error member of a response that has none.
NoEmbError == [code |-> 0, message |-> ""]

EmbResult(req_id, result) == [id |-> req_id, result |-> result, error |-> NoEmbError]

EmbError(req_id, code, message) ==
    [id |-> req_id, result |-> None, error |-> [code |-> code, message |-> message]]

\* The response written before the loop starts (lines 240-259).
EarlyInitialization == EmbResult("4", "capabilities")

\* What the libraries do in a pass that calls them.
LibraryEnds == {"returns", "raises", "unwritable"}

\* Whether the writes on sys.stdout go through in a pass.
StdoutEnds == {"ok", "fails"}

InternalError == EmbError("null", -32603, "Internal error")

\* What the loop does with a body json.loads has decoded (lines 330-463, and
\* line 471 for what raises there): the responses it tries to write, in
\* order, and whether handle_jsonrpc returns.
\*   - the body is no object: request.get raises, Internal error under a
\*     null id (line 471).
\*   - initialize: the response is written at lines 367-372, outside
\*     send_response; a write that raises is caught at line 468 and an
\*     Internal error is tried.
\*   - tool/execute: params.get raises when params is no object; embed is
\*     called for "embed" (a result send_response cannot serialise is
\*     dropped there); any other tool is not found.
\*   - shutdown: the response is tried, then the function returns.
\*   - exit: the function returns.
\*   - any other method goes to dispatch.
EmbHandleDecoded(body, lib, w) ==
    IF body.json = "array"
    THEN [sends |-> << InternalError >>, ends |-> FALSE]
    ELSE IF body.method = "initialize"
    THEN [sends |-> IF w = "ok"
                    THEN << EmbResult(EmbId(body), "capabilities") >>
                    ELSE << EmbResult(EmbId(body), "capabilities"), InternalError >>,
          ends |-> FALSE]
    ELSE IF body.method = "tool/execute"
    THEN [sends |->
            IF ~body.params_isdict THEN << InternalError >>
            ELSE IF body.tool_name = "embed"
            THEN IF lib = "returns"
                 THEN << EmbResult(EmbId(body), "embedding") >>
                 ELSE IF lib = "raises"
                 THEN << EmbError(EmbId(body), -32000, "Tool execution failed") >>
                 ELSE << >>
            ELSE << EmbError(EmbId(body), -32601,
                             "Tool not found: " \o body.tool_name) >>,
          ends |-> FALSE]
    ELSE IF body.method = "shutdown"
    THEN [sends |-> << EmbResult(EmbId(body), "null") >>, ends |-> TRUE]
    ELSE IF body.method = "exit"
    THEN [sends |-> << >>, ends |-> TRUE]
    ELSE [sends |-> IF lib = "returns"
                    THEN << EmbResult(EmbId(body), "dispatched") >>
                    ELSE IF lib = "raises" THEN << InternalError >>
                    ELSE << >>,
          ends |-> FALSE]

\* Mutant of EmbHandle: a body that does not parse ends the loop.
EmbHandleStopsOnParseError(body, lib, w) ==
    IF body.json = "invalid"
    THEN [sends |-> << EmbError("null", -32700, "Parse error") >>, ends |-> TRUE]
    ELSE EmbHandleDecoded(body, lib, w)

\* Lines 326-471: json.loads, which answers a body that does not parse with
\* a Parse error under a null id (line 467), then the handling above.
EmbHandle(body, lib, w) ==
    IF body.json = "invalid"
    THEN [sends |-> << EmbError("null", -32700, "Parse error") >>, ends |-> FALSE]
    ELSE EmbHandleDecoded(body, lib, w)

\* The record emb_out keeps of a response the server tried to write: in which
\* pass of the loop (0: before the loop), and whether it reached the output.
EmbLogged(sends, n, w) ==
    [i \in 1..Len(sends) |-> [n |-> n, response |-> sends[i], ok |-> (w = "ok")]]

\* Lines 237-276: the initialization response sent before anything is read.
EmbEarlyResponse(w) ==
    /\ emb_pc = "start"
    /\ emb_out' = emb_out \o EmbLogged(<< EarlyInitialization >>, 0, w)
    /\ emb_pc' = "read"
    /\ UNCHANGED << emb_cur, emb_nread >>
    /\ UNCHANGED << loopVars, framerVars, serversVars, fsVars >>

\* Lines 281-324: the headers and the body of one message.
EmbRead(item) ==
    /\ emb_pc = "read"
    /\ item.kind # "eof" => emb_nread < MaxMessages
    /\ emb_cur' = item
    /\ emb_nread' = emb_nread + 1
    /\ emb_pc' = IF item.kind \in {"eof", "eof_in_body"} THEN "done"
                 ELSE IF item.kind = "nolength" THEN "read"
                 ELSE "handle"
    /\ UNCHANGED emb_out
    /\ UNCHANGED << loopVars, framerVars, serversVars, fsVars >>

\* Lines 326-471: the body is decoded and handled.
EmbProcess(lib, w) ==
    /\ emb_pc = "handle"
    /\ LET h == EmbHandle(emb_cur.body, lib, w)
       IN  /\ emb_out' = emb_out \o EmbLogged(h.sends, emb_nread, w)
           /\ emb_pc' = IF h.ends THEN "done" ELSE "read"
    /\ UNCHANGED << emb_cur, emb_nread >>
    /\ UNCHANGED << loopVars, framerVars, serversVars, fsVars >>

EmbNext ==
    \/ \E w \in StdoutEnds : EmbEarlyResponse(w)
    \/ \E item \in EmbItems : EmbRead(item)
    \/ \E lib \in LibraryEnds, w \in StdoutEnds : EmbProcess(lib, w)

EmbSpec == Init /\ [][EmbNext]_vars

-----------------------------------------------------------------------------
(* The filesystem tools: python_mcp/servers/filesystem_mcp.py *)

\* The "content" argument of write_file: a string, or missing or no string.
Texts ==
    { << >>, << "c" >>, << "c", "LF" >>, << "CR", "LF" >>, << "CR" >>,
      << "c", "SUR" >> }

ContentArgs ==
    { [isstr |-> TRUE, text |-> t] : t \in Texts }
    \cup { [isstr |-> FALSE, text |-> << >>] }

\* The "path" argument: a path, or the empty string (a missing path and one
\* that is no string fail the same test).
PathArgs == Paths \cup {""}

\* The "max_size" argument of read_file: missing, an integer, anything else.
MaxSizeArgs ==
    { [kind |-> "none", n |-> 0], [kind |-> "other", n |-> 0] }
    \cup { [kind |-> "int", n |-> n] : n \in {-1, 0, 1} }

NoMaxSize == [kind |-> "none", n |-> 0]

\* The "create_dirs" argument of write_file: a boolean, or anything else.
CreateDirsArgs == {"true", "false", "other"}

\* Whether the operating system lets the tool open (remove) what it names.
OsEnds == {"ok", "denied"}

\* os.path.dirname of a path; "" is the working directory, which exists.
Parent(p) == IF p = "d/b" THEN "d" ELSE ""

\* os.path.exists, os.path.isdir.
Exists(fs, p) == fs[p].kind # "none"

IsDir(fs, p) == fs[p].kind = "dir"

\* The directory a path lies in is there, so that open can create the file.
ParentIsDir(fs, p) == Parent(p) = "" \/ IsDir(fs, Parent(p))

\* encode('utf-8') of a text goes through.
Encodable(text) == \A i \in 1..Len(text) : text[i] # "SUR"

\* What a file opened with open(path, 'r') hands out for its bytes: newline
\* is None, so "\r\n" and a lone "\r" are read as "\n".
RECURSIVE UniversalNewlines(_)
UniversalNewlines(bytes) ==
    IF bytes = << >> THEN << >>
    ELSE IF bytes[1] = "CR"
    THEN IF Len(bytes) > 1 /\ bytes[2] = "LF"
         THEN << "LF" >> \o UniversalNewlines(SubSeq(bytes, 3, Len(bytes)))
         ELSE << "LF" >> \o UniversalNewlines(Tail(bytes))
    ELSE << bytes[1] >> \o UniversalNewlines(Tail(bytes))

\* f.read(n): the first n characters.
FirstChars(text, n) == SubSeq(text, 1, IF n < Len(text) THEN n ELSE Len(text))

FsRaised(fs, error) == [ok |-> FALSE, error |-> error, content |-> << >>, files |-> fs]

FsReturned(fs, content) == [ok |-> TRUE, error |-> "", content |-> content, files |-> fs]

\* read_file (lines 63-99).
ReadFile(fs, path, max_size, os) ==
    IF path = "" THEN FsRaised(fs, "ValueError")
    ELSE IF max_size.kind = "other" THEN FsRaised(fs, "ValueError")
    ELSE IF ~Exists(fs, path) THEN FsRaised(fs, "FileNotFoundError")
    ELSE IF IsDir(fs, path) THEN FsRaised(fs, "IsADirectoryError")
    ELSE IF os = "denied" THEN FsRaised(fs, "PermissionError")
    ELSE LET text == UniversalNewlines(fs[path].bytes)
         IN  IF max_size.kind = "int" /\ max_size.n >= 0
             THEN FsReturned(fs, FirstChars(text, max_size.n))
             ELSE FsReturned(fs, text)

\* write_file (lines 101-135).  open(abs_path, 'w') creates the file, or cuts
\* it to no bytes, before f.write encodes the content; on this platform the
\* text layer writes "\n" as it is.  The UnicodeEncodeError of f.write is no
\* OSError and leaves the function as it is.
WriteFile(fs, path, content, create_dirs, os) ==
    IF path = "" THEN FsRaised(fs, "ValueError")
    ELSE IF ~content.isstr THEN FsRaised(fs, "ValueError")
    ELSE IF create_dirs = "other" THEN FsRaised(fs, "ValueError")
    ELSE IF IsDir(fs, path) THEN FsRaised(fs, "IsADirectoryError")
    ELSE LET made == IF /\ create_dirs = "true"
                        /\ Parent(path) # ""
                        /\ ~Exists(fs, Parent(path))
                     THEN [fs EXCEPT ![Parent(path)] = Directory]
                     ELSE fs
         IN  IF ~ParentIsDir(made, path) \/ os = "denied"
             THEN FsRaised(made, "PermissionError")
             ELSE IF ~Encodable(content.text)
             THEN FsRaised([made EXCEPT ![path] = File(<< >>)], "UnicodeEncodeError")
             ELSE FsReturned([made EXCEPT ![path] = File(content.text)], << >>)

\* delete_file (lines 137-163): shutil.rmtree for a directory, os.remove for
\* a file.
DeleteFile(fs, path, os) ==
    IF path = "" THEN FsRaised(fs, "ValueError")
    ELSE IF ~Exists(fs, path) THEN FsRaised(fs, "FileNotFoundError")
    ELSE IF os = "denied" THEN FsRaised(fs, "PermissionError")
    ELSE FsReturned([p \in Paths |->
                     IF p = path \/ (IsDir(fs, path) /\ Parent(p) = path)
                     THEN NoEntry ELSE fs[p]],
                  << >>)

\* What fs_last keeps of a call.
Called(op, path, text, r) ==
    [op |-> op, path |-> path, text |-> text, ok |-> r.ok, error |-> r.error,
     content |-> r.content]

FsRead(path, max_size, os) ==
    /\ LET r == ReadFile(files, path, max_size, os)
       IN  /\ files' = r.files
           /\ fs_last' = Called("read", path, << >>, r)
    /\ UNCHANGED << loopVars, framerVars, serversVars, embVars >>

FsWrite(path, content, create_dirs, os) ==
    /\ LET r == WriteFile(files, path, content, create_dirs, os)
       IN  /\ files' = r.files
           /\ fs_last' = Called("write", path, content.text, r)
    /\ UNCHANGED << loopVars, framerVars, serversVars, embVars >>

FsDelete(path, os) ==
    /\ LET r == DeleteFile(files, path, os)
       IN  /\ files' = r.files
           /\ fs_last' = Called("delete", path, << >>, r)
    /\ UNCHANGED << loopVars, framerVars, serversVars, embVars >>

FsNext ==
    \/ \E path \in PathArgs, max_size \in MaxSizeArgs, os \in OsEnds :
          FsRead(path, max_size, os)
    \/ \E path \in PathArgs, content \in ContentArgs,
          create_dirs \in CreateDirsArgs, os \in OsEnds :
          FsWrite(path, content, create_dirs, os)
    \/ \E path \in PathArgs, os \in OsEnds : FsDelete(path, os)

FsSpec == Init /\ [][FsNext]_vars

-----------------------------------------------------------------------------
(* Vocabulary of the properties *)

\* The last item read was a frame whose body decoded to an object.
IsRequest(item) == item.kind = "frame" /\ item.body.json = "object"

\* ... with the given string method.
HasMethod(item, methods) ==
    IsRequest(item) /\ item.body.mtype = "str" /\ item.body.method \in methods

\* The loop has dispatched the last item read (it is sending, or back at the
\* loop test, or out of the loop).
Dispatched == pc \in {"send", "top", "done"}

\* The loop iteration of the last item read is over.
IterationOver == pc \in {"top", "done"}

\* Two write records that differ at most in the part written.
SameFrame(a, b) == [a EXCEPT !.part = "frame"] = [b EXCEPT !.part = "frame"]

\* The whole frames a reader of the output finds in a sequence of writes: a
\* single-write frame, or a header directly followed by its own body.
RECURSIVE WholeFrames(_)
WholeFrames(ws) ==
    IF Len(ws) = 0 THEN << >>
    ELSE IF ws[1].part = "frame" THEN << ws[1] >> \o WholeFrames(Tail(ws))
    ELSE IF /\ ws[1].part = "header"
            /\ Len(ws) >= 2
            /\ ws[2].part = "body"
            /\ SameFrame(ws[1], ws[2])
    THEN << ws[2] >> \o WholeFrames(Tail(Tail(ws)))
    ELSE WholeFrames(Tail(ws))

FrameIds(ws) == [i \in 1..Len(WholeFrames(ws)) |-> WholeFrames(ws)[i].id]

\* The current item is a tool/execute (or alias) request with an id.
IsToolRequest ==
    /\ HasMethod(cur, {"tool/execute", "mcp/tool/execute"})
    /\ cur.body.id # None

\* The name such a request asks for: tool_name when it holds one, else the
\* legacy name.
RequestedTool ==
    LET p == cur.body.params
    IN  IF ~p.isdict THEN None
        ELSE IF p.tool_name \notin {None, NullName} THEN p.tool_name ELSE p.name

-----------------------------------------------------------------------------
(* Properties *)

\* C1: every dispatched message with a non-null id X is answered by exactly
\* one response, which carries X.  Stated with every allowance the claim can
\* be given: `exit` is left out (the process ends), so are the "$/" methods
\* (ignored by design whatever their id), and so is every run in which a write
\* to the output failed.
C1_EveryRequestAnsweredOnce ==
    ( /\ IterationOver
      /\ IsRequest(cur)
      /\ cur.body.id # None
      /\ ~HasMethod(cur, {"exit", "$/progress"})
      /\ ~writeFailed )
    => /\ Len(WholeFrames(wrote)) = 1
       /\ WholeFrames(wrote)[1].response.id = cur.body.id

\* C2: a message without an id never causes a write to the output.
C2_NotificationNeverAnswered ==
    (IsRequest(cur) /\ cur.body.id = None) => Len(wrote) = 0

\* C3: after initialize(1), tool/execute(2, echo, {text: "hi"}), shutdown(3)
\* have been read, and with a working output, the output holds exactly three
\* responses, with ids 1, 2, 3 in that order, and the loop is on its way out:
\* the shutdown flag is set, so the next loop test leaves the loop and the
\* output stays as it is.
C3_ScenarioThreeResponses ==
    (scen = 3 /\ IterationOver /\ ~writeFailed)
    => /\ FrameIds(out) = << "1", "2", "3" >>
       /\ Len(out) = Len(WholeFrames(out))
          + Cardinality({ i \in 1..Len(out) : out[i].part = "header" })
       /\ shutdown_requested

C3_Witness ==
    /\ scen = 3
    /\ pc = "done"
    /\ ~writeFailed
    /\ ~signalled
    /\ FrameIds(out) = << "1", "2", "3" >>

\* C4: responses appear on the output in the order their requests were read:
\* the writes never go back to an earlier request, a request has at most one
\* frame, and a frame written in two parts is a header directly followed by
\* its body, with nothing in between.
C4_ResponsesInReadOrder ==
    /\ \A i, j \in 1..Len(out) : i < j => out[i].n <= out[j].n
    /\ \A i, j \in 1..Len(WholeFrames(out)) :
           i < j => WholeFrames(out)[i].n < WholeFrames(out)[j].n
    /\ \A i \in 1..Len(out) :
           out[i].part = "body"
           => i > 1 /\ out[i - 1].part = "header" /\ SameFrame(out[i - 1], out[i])
    /\ \A i \in 1..Len(out) :
           (out[i].part = "header" /\ i < Len(out))
           => out[i + 1].part = "body" \/ out[i + 1].n > out[i].n

C4_Witness ==
    /\ Len(WholeFrames(out)) >= 2
    /\ \E i \in 1..Len(out) : out[i].part = "body"
    /\ \E i \in 1..Len(out) : out[i].part = "frame"

\* C5: handling an `initialize` without an id writes nothing and leaves the
\* lifecycle flags as they were.
C5_InitializeWithoutIdIsDropped ==
    [][ ( /\ pc = "decode"
          /\ pc' # "decode"
          /\ HasMethod(cur, {"initialize"})
          /\ cur.body.id = None )
        => /\ initialized' = initialized
           /\ shutdown_requested' = shutdown_requested
           /\ response' = NoResponse ]_vars

\* C6: an `initialize` request with an id leaves the server initialized and is
\* answered with the server's name and version, the full list of tool
\* descriptors, no resources, and the status "initialized".
C6_InitializeAnswer ==
    (Dispatched /\ HasMethod(cur, {"initialize"}) /\ cur.body.id # None)
    => /\ initialized
       /\ response.id = cur.body.id
       /\ response.keys = {"jsonrpc", "id", "result"}
       /\ response.result.serverInfo = [name |-> ServerName, version |-> ServerVersion]
       /\ response.result.capabilities.tools = Tools
       /\ response.result.capabilities.resources = << >>
       /\ response.result.status = "initialized"
       /\ \A i \in 1..Len(wrote) : wrote[i].response = response

C6_Witness ==
    /\ IterationOver
    /\ HasMethod(cur, {"initialize"})
    /\ cur.body.id # None
    /\ wrote = << WriteOp("frame", response) >>

\* C7: a tool/execute request with an id that names a tool with no registered
\* handler is answered with error -32601, "Tool not found: <name>", and no
\* handler is invoked.
C7_UnknownToolAnswer ==
    ( /\ Dispatched
      /\ IsToolRequest
      /\ RequestedTool \notin ToolHandlers \cup {Unhashable} )
    => /\ response = ErrorResponse(cur.body.id, -32601,
                                   "Tool not found: " \o RequestedTool)
       /\ Len(invoked) = 0
       /\ \A i \in 1..Len(wrote) : wrote[i].response = response

C7_Witness ==
    /\ IterationOver
    /\ IsToolRequest
    /\ cur.body.params.tool_name = "nope"
    /\ cur.body.params.name = "echo"
    /\ wrote = << WriteOp("frame", response) >>

\* A tool/execute request with an id that reaches a registered handler.
CallsHandler == IsToolRequest /\ RequestedTool \in ToolHandlers

\* What that handler does with the arguments of the request.
HandlerResult ==
    CallHandler(RequestedTool,
                IF cur.body.params.has_arguments
                THEN cur.body.params.arguments ELSE ArgsEmpty)

\* C8: when the handler of a tool/execute request fails, the dispatcher returns
\* (nothing is raised), the response is error -32000 with the message
\* "Tool execution error: " and the text of the failure, and the lifecycle
\* flags are as before.
C8_HandlerFailureAnswer ==
    [][ ( /\ pc = "decode"
          /\ pc' # "decode"
          /\ CallsHandler
          /\ ~HandlerResult.ok )
        => /\ pc' = "send"
           /\ response' = ErrorResponse(cur.body.id, -32000,
                              "Tool execution error: " \o HandlerResult.exc)
           /\ Len(invoked') = 1
           /\ initialized' = initialized
           /\ shutdown_requested' = shutdown_requested ]_vars

C8_Witness ==
    /\ IterationOver
    /\ CallsHandler
    /\ RequestedTool = "fail"
    /\ wrote = << WriteOp("frame",
                    ErrorResponse(cur.body.id, -32000,
                       "Tool execution error: This tool failed intentionally!")) >>

\* C9: when the handler of a tool/execute request returns, the response holds
\* exactly the returned value as its result, and no error.
C9_HandlerResultUnchanged ==
    (Dispatched /\ CallsHandler /\ HandlerResult.ok)
    => /\ response.id = cur.body.id
       /\ response.keys = {"jsonrpc", "id", "result"}
       /\ response.result = HandlerResult.value
       /\ response.error = Absent
       /\ \A i \in 1..Len(wrote) : wrote[i].response = response

C9_Witness ==
    /\ IterationOver
    /\ CallsHandler
    /\ wrote = << WriteOp("frame",
                    ResultResponse(cur.body.id, [message |-> "Echo: hi"])) >>

\* C10: the loop ends only after an `exit` message, a termination signal or the
\* end of the input; a framing error costs one message and the loop reads on.
\* Stated with every allowance: a `shutdown` message and a body cut short by
\* the end of the input count as ends of the loop too.
C10_LoopEndsOnlyOnExitSignalEof ==
    pc = "done"
    => \/ signalled
       \/ cur.kind \in {"eof", "truncated"}
       \/ HasMethod(cur, {"exit", "shutdown"})

\* C11: a header of more than 4096 bytes without a terminator is given up with
\* a framing error, nothing is written for it, and the loop goes on to another
\* read instead of stopping (a signal delivered meanwhile may still stop it).
C11_OversizeHeaderLoopReadsOn ==
    (cur.kind = "oversize" /\ ~signalled)
    => /\ Len(wrote) = 0
       /\ response = NoResponse
       /\ ~shutdown_requested
       /\ pc # "done"

\* Vocabulary of the byte-level properties.  The framer has returned from the
\* call in which it met the host's current frame.
FramerReturned ==
    /\ cur.kind = "bytes"
    /\ ~cur.old
    /\ pc \in {"decode", "top", "done"}

\* A header naming the length of the body, and a body of UTF-8 text.
ValidFrame(frame) ==
    /\ frame.header[1] = ContentLengthField
    /\ Utf8Ok(frame.body)

\* Bytes of the frame written so far: all of them; or the whole header but
\* not the whole body.
SentWhole(frame) == frame.sent = Len(frame.header) + Len(frame.body)

SentPartOfBody(frame) ==
    /\ frame.sent >= Len(frame.header)
    /\ frame.sent < Len(frame.header) + Len(frame.body)

\* C12: a valid frame that starts where a header is expected and whose bytes
\* have all been written, in whatever pieces, is handed over by the framer
\* with exactly its original body (a short read of the body is resumed).
C12_FrameInPiecesIsHandedOver ==
    (FramerReturned /\ cur.aligned /\ ValidFrame(cur) /\ SentWhole(cur))
    => content_text = [bytes |-> cur.body]

\* C13: whichever of the three terminators ends the header, and whatever
\* frames came before, a body the framer hands over for a valid frame is
\* exactly the bytes that follow the terminator, Content-Length of them, and
\* no byte of the frame is left in the input to be taken for the next header.
C13_BodyIsTheBytesAfterTerminator ==
    (FramerReturned /\ cur.aligned /\ ValidFrame(cur) /\ content_text # NoContent)
    => /\ content_text.bytes = cur.body
       /\ Len(stream) = 0
       /\ Len(pending) = 0

\* C14: when the input ends after the header of a valid frame and before the
\* whole body has arrived, the framer reports a failure and hands no body
\* over, whichever terminator the header ends with.
C14_TruncatedBodyIsAFailure ==
    (FramerReturned /\ cur.aligned /\ ValidFrame(cur) /\ SentPartOfBody(cur)
        /\ closed)
    => /\ content_text = NoContent
       /\ pc # "decode"

\* C15: in any lifecycle state an `exit` message, with or without an id, gets
\* no response, and once it has been processed the loop leaves: the thread is
\* never again at a read, a dispatch of another message or a write.
C15_ExitEndsLoopSilently ==
    HasMethod(cur, {"exit"})
    => /\ pc \in {"decode", "top", "done"}
       /\ Len(wrote) = 0
       /\ pc # "decode" => /\ shutdown_requested
                           /\ response = NoResponse
                           /\ Len(invoked) = 0

C15_Witness ==
    /\ HasMethod(cur, {"exit"})
    /\ cur.body.id # None
    /\ initialized
    /\ ~signalled
    /\ pc = "done"

\* C16: a `shutdown` message sets the shutdown flag (the server is shutting
\* down from then on); with an id it is answered by exactly one response,
\* which carries that id and a null result; without an id nothing is written.
\* "Exactly one" is stated for the runs in which no write to the output failed.
C16_ShutdownAnswer ==
    (HasMethod(cur, {"shutdown"}) /\ Dispatched)
    => /\ shutdown_requested
       /\ Len(invoked) = 0
       /\ IF cur.body.id = None
          THEN /\ response = NoResponse
               /\ Len(wrote) = 0
          ELSE /\ response = ResultResponse(cur.body.id, JNull)
               /\ \A i \in 1..Len(wrote) : wrote[i].response = response
               /\ Len(WholeFrames(wrote)) <= 1
               /\ (IterationOver /\ ~writeFailed) => Len(WholeFrames(wrote)) = 1

C16_Witness ==
    /\ HasMethod(cur, {"shutdown"})
    /\ cur.body.id # None
    /\ initialized
    /\ ~signalled
    /\ shutdown_requested
    /\ wrote = << WriteOp("frame", ResultResponse(cur.body.id, JNull)) >>

\* C17: a termination signal only sets the shutdown flag, and the flag is
\* looked at only by the loop test.  A signal that arrives while a message is
\* read, dispatched or answered interrupts none of these: the thread stays
\* where it is, the read, the dispatch and the write go on as without the
\* signal, the message gets the response its dispatch produces, and the loop
\* is left at the next loop test and nowhere else.
SignalOnlySetsFlag ==
    (~signalled /\ signalled')
    => \/ UNCHANGED << initialized, pc, cur, content_text, response, out, wrote,
                       invoked, nread, writeFailed >>
       \/ /\ pc = "send"
          /\ \E outcome \in WriteOutcomes :
                 /\ ~SignalInWrite(outcome)
                 /\ wrote' = wrote \o SendResponse(response, outcome)

SignalledStepsGoOn ==
    (signalled /\ pc' # pc)
    => /\ pc = "top" => pc' = "done"
       /\ pc = "read" => /\ nread' = nread + 1
                         /\ pc' \in {"decode", "top"}
       /\ pc = "decode"
            => /\ response' =
                    Processed(content_text, initialized, shutdown_requested).response
               /\ pc' = IF response' = NoResponse THEN "top" ELSE "send"
       /\ pc = "send"
            => /\ pc' = "top"
               /\ \E outcome \in WriteOutcomes :
                      /\ ~SignalInWrite(outcome)
                      /\ wrote' = wrote \o SendResponse(response, outcome)

LoopLeftOnlyAtLoopTest == pc' = "done" => pc \in {"top", "done"}

SignalledMessageAnswered ==
    /\ signalled => shutdown_requested
    /\ (signalled /\ pc = "done" /\ IsRequest(cur))
       => /\ response = Processed(cur.body, FALSE, FALSE).response
          /\ (response # NoResponse /\ ~writeFailed)
             => /\ Len(WholeFrames(wrote)) = 1
                /\ WholeFrames(wrote)[1].response = response

C17_SignalInterruptsNothing ==
    /\ []SignalledMessageAnswered
    /\ [][SignalOnlySetsFlag /\ SignalledStepsGoOn /\ LoopLeftOnlyAtLoopTest]_vars

\* C18: once the host has closed the input the message loop eventually ends,
\* whatever the lifecycle state and wherever the input ends: before a header,
\* inside a header or inside a body.
C18_EndOfInputEndsLoop == closed ~> (pc = "done")

\* The loop has ended after an input that ended inside the body of a frame
\* with the escaped terminator, the server being initialized.
C18_Witness ==
    /\ closed
    /\ pc = "done"
    /\ cur.kind = "bytes"
    /\ cur.style = "escaped"
    /\ SentPartOfBody(cur)
    /\ initialized

\* C19: a `tool/execute` (or `mcp/tool/execute`) message without an id is
\* dropped: handling it produces no response and no write, invokes no
\* handler, and leaves both lifecycle flags as they were.
C19_ToolExecuteWithoutIdIsDropped ==
    [][ ( /\ pc = "decode"
          /\ pc' # "decode"
          /\ HasMethod(cur, ToolMethods)
          /\ cur.body.id = None )
        => /\ pc' = "top"
           /\ response' = NoResponse
           /\ Len(invoked') = 0
           /\ Len(wrote') = 0
           /\ out' = out
           /\ initialized' = initialized
           /\ shutdown_requested' = shutdown_requested ]_vars

\* Such a message, naming a registered tool, has been handled.
C19_Witness ==
    /\ HasMethod(cur, ToolMethods)
    /\ cur.body.id = None
    /\ RequestedTool \in ToolHandlers
    /\ pc = "top"
    /\ ~shutdown_requested

\* C20: a message whose method starts with "$/" is accepted and ignored, with
\* or without an id: handling it produces no response and no write, invokes
\* no handler, and leaves both lifecycle flags as they were.
C20_ReservedNotificationIgnored ==
    [][ ( /\ pc = "decode"
          /\ pc' # "decode"
          /\ IsRequest(cur)
          /\ cur.body.mtype = "str"
          /\ StartsWithDollarSlash(cur.body.method) )
        => /\ pc' = "top"
           /\ response' = NoResponse
           /\ Len(invoked') = 0
           /\ Len(wrote') = 0
           /\ out' = out
           /\ initialized' = initialized
           /\ shutdown_requested' = shutdown_requested ]_vars

\* A "$/" message that carries an id has been handled.
C20_Witness ==
    /\ HasMethod(cur, {"$/progress"})
    /\ cur.body.id # None
    /\ pc = "top"
    /\ ~shutdown_requested

\* The current message has a method (a JSON value of any type) that is none
\* of the methods the dispatcher knows and does not start with "$/".
HasUnknownMethod ==
    /\ IsRequest(cur)
    /\ cur.body.mtype # "absent"
    /\ ~HasMethod(cur, {"initialize", "shutdown", "exit", "$/progress"}
                       \cup ToolMethods)

\* C21: a message with an unrecognised method is answered, when it has an
\* id, with the error -32601 "Method not found: <method>" under that id, and
\* is dropped without any write when it has no id.
C21_UnknownMethodAnswer ==
    (HasUnknownMethod /\ Dispatched)
    => IF cur.body.id # None
       THEN response = ErrorResponse(cur.body.id, MethodNotFoundCode,
                                     "Method not found: " \o cur.body.method)
       ELSE /\ response = NoResponse
            /\ Len(wrote) = 0

\* C22: an object without a "method" member is a protocol violation that is
\* dropped: it is not handled as an unknown method, no response (and so no
\* method-not-found error) is produced and nothing is written, with or
\* without an id.
C22_MissingMethodIsDropped ==
    (IsRequest(cur) /\ cur.body.mtype = "absent" /\ Dispatched)
    => /\ response = NoResponse
       /\ Len(wrote) = 0
       /\ Len(invoked) = 0

\* C23: a body that is not valid JSON, or that is valid JSON other than an
\* object, is dropped: handling it produces no response and no write, invokes
\* no handler, leaves both lifecycle flags as they were, and the loop goes
\* back to its test to read on.
C23_BadBodyIsDropped ==
    [][ ( /\ pc = "decode"
          /\ pc' # "decode"
          /\ cur.kind = "frame"
          /\ \/ cur.body.json \in {"invalid", "array"}
             \/ cur.body.json = "raises" /\ cur.body.syntax \in {"invalid", "array"} )
        => /\ pc' = "top"
           /\ response' = NoResponse
           /\ Len(invoked') = 0
           /\ Len(wrote') = 0
           /\ out' = out
           /\ initialized' = initialized
           /\ shutdown_requested' = shutdown_requested ]_vars

\* C24: the dispatcher never raises: for every decoded object, whatever the
\* JSON types of its method, params, id and params.tool_name, _handle_request
\* returns a response or nothing.
C24_DispatcherNeverRaises ==
    (pc = "decode" /\ IsRequest(cur))
    => HandleRequest(cur.body, initialized, shutdown_requested).raised = None

\* A response object with a non-null id and exactly one of "result", "error".
HasIdAndOneOutcome(r) ==
    /\ "id" \in r.keys
    /\ r.id # None
    /\ ("result" \in r.keys) # ("error" \in r.keys)
    /\ ("result" \in r.keys) = (r.result # Absent)
    /\ ("error" \in r.keys) = (r.error # Absent)

\* C25: every response the server builds to send, and every response any
\* part of which it writes, has an id and exactly one of result and error.
C25_ResponseShape ==
    /\ response # NoResponse => HasIdAndOneOutcome(response)
    /\ \A i \in 1..Len(wrote) : HasIdAndOneOutcome(wrote[i].response)

\* The loop has written the error response it builds itself after an
\* unexpected exception.
C25_Witness ==
    /\ pc = "top"
    /\ Len(wrote) = 1
    /\ wrote[1].part = "frame"
    /\ wrote[1].response.error # Absent
    /\ wrote[1].response.error.code = InternalErrorCode

\* The bytes the writes of the current message put on the stream, in order.
RECURSIVE Emitted(_)
Emitted(ws) ==
    IF ws = << >> THEN ""
    ELSE WriteBytes(Head(ws).part, Head(ws).response) \o Emitted(Tail(ws))

\* C26: whatever a _send_response call puts on the stream is
\* "Content-Length: N", CR LF CR LF, and exactly N body bytes, N being the
\* byte length of the serialized response; a write of header and body at once
\* is the only write of its call.
C26_FrameFormat ==
    wrote # << >> =>
        LET body == Dumps(wrote[1].response)
        IN  /\ Emitted(wrote)
                 = "Content-Length: " \o ToString(Len(body)) \o "\r\n\r\n" \o body
            /\ wrote[1].part = "frame" => Len(wrote) = 1


\* A _send_response call in which json.dumps or a write raises: nothing, or
\* the header alone, reaches the stream.
WriteRaises ==
    /\ pc = "send"
    /\ pc' # pc
    /\ \/ wrote' = wrote
       \/ wrote' = wrote \o << WriteOp("header", response) >>

\* C27: a failure while serializing or writing a response is swallowed: the
\* writer returns to the loop without raising (no second response is made for
\* the message), the lifecycle flags stay as they were, and the loop goes on:
\* after a failed write the loop test, the read and the dispatch of the
\* following messages do what they do without the failure.
C27_WriteFailureIsSwallowed ==
    /\ [][ WriteRaises
            => /\ pc' = "top"
               /\ writeFailed'
               /\ response' = response
               /\ initialized' = initialized
               /\ shutdown_requested' = shutdown_requested ]_vars
    /\ [][ (writeFailed /\ pc' # pc)
            => /\ pc = "top"
                    => pc' = IF shutdown_requested THEN "done" ELSE "read"
               /\ pc = "read" => pc' \in {"decode", "top"} /\ nread' = nread + 1
               /\ pc = "decode"
                    => LET h == Processed(content_text, initialized,
                                          shutdown_requested)
                       IN  /\ response' = h.response
                           /\ initialized' = h.initialized
                           /\ invoked' = h.invoked
                           /\ pc' = IF h.response = NoResponse
                                    THEN "top" ELSE "send" ]_vars

\* The write of a response raised after its header, no signal has arrived,
\* and the request read next has been answered with a whole frame.
C27_Witness ==
    /\ writeFailed
    /\ ~signalled
    /\ pc = "top"
    /\ \E i \in 1..(Len(out) - 1) :
           /\ out[i].part = "header"
           /\ out[i + 1].part = "frame"
           /\ out[i + 1].n = out[i].n + 1
    /\ wrote = << WriteOp("frame", response) >>

\* C28: the lifecycle flags change only in a step that handles `initialize`,
\* `shutdown` or `exit`, or in which a signal arrives (the end of the input,
\* which ends the loop through the shutdown flag, is allowed for as well).  A
\* step on tool/execute, a reserved-prefix method, an unknown method, a
\* malformed body or a framing failure leaves both flags as they were.
C28_LifecycleChangesOnlyOnLifecycleMessages ==
    [][ (initialized' # initialized \/ shutdown_requested' # shutdown_requested)
        => \/ pc = "decode" /\ HasMethod(cur, {"initialize", "shutdown", "exit"})
           \/ ~signalled /\ signalled'
           \/ pc = "read" /\ cur'.kind = "eof" ]_vars

\* C29: a tool/execute message is never refused on account of the lifecycle
\* state: the response it gets and the handler call made for it are the ones
\* it gets in every other lifecycle state, before `initialize` as after it.
C29_ToolExecuteInAnyLifecycleState ==
    [][ ( /\ pc = "decode"
          /\ pc' # "decode"
          /\ HasMethod(cur, ToolMethods) )
        => \A init \in BOOLEAN, shut \in BOOLEAN :
               LET h == Processed(cur.body, init, shut)
               IN  /\ response' = h.response
                   /\ invoked' = h.invoked ]_vars

\* A request for the registered tool "echo" has been dispatched while no
\* `initialize` had been handled: the handler ran and its result is the answer.
C29_Witness ==
    /\ pc = "send"
    /\ ~initialized
    /\ CallsHandler
    /\ RequestedTool = "echo"
    /\ invoked # << >>
    /\ response = ResultResponse(cur.body.id, HandlerResult.value)

\* The canonical form of a tool request: the method is `tool/execute` and the
\* tool is given under `tool_name`; a `name` given beside a `tool_name` that is
\* present is dropped, a `name` given alone becomes the `tool_name`.
CanonicalParams(p) ==
    IF ~p.isdict THEN p
    ELSE IF p.tool_name # None THEN [p EXCEPT !.name = None]
    ELSE [p EXCEPT !.tool_name = p.name, !.name = None]

CanonicalRequest(body) ==
    [body EXCEPT !.method = "tool/execute", !.params = CanonicalParams(body.params)]

\* C30: the alias method `mcp/tool/execute` and the legacy field `name` behave
\* exactly as `tool/execute` and `tool_name`: a request using the alias, or
\* giving the tool under `name` with no `tool_name`, gets the response and the
\* handler call of its canonical form, and when both fields are present the
\* `tool_name` is the one used.
C30_AliasAndLegacyNameAreEquivalent ==
    [][ ( /\ pc = "decode"
          /\ pc' # "decode"
          /\ HasMethod(cur, ToolMethods) )
        => LET h == Processed(CanonicalRequest(cur.body), initialized,
                              shutdown_requested)
           IN  /\ response' = h.response
               /\ invoked' = h.invoked ]_vars

\* C31: when handling a decoded message raises in the loop, an Internal error
\* response (-32603) is made if and only if the message has a non-null
\* top-level id, and it carries that top-level id, never an `id` found
\* elsewhere in the body.
C31_InternalErrorCarriesTopLevelId ==
    [][ ( /\ pc = "decode"
          /\ pc' # "decode"
          /\ IsRequest(cur)
          /\ HandleRequest(cur.body, initialized, shutdown_requested).raised
                 # None )
        => response' =
               IF cur.body.id # None
               THEN ErrorResponse(
                        cur.body.id, InternalErrorCode,
                        "Internal error: "
                        \o HandleRequest(cur.body, initialized,
                                         shutdown_requested).raised)
               ELSE NoResponse ]_vars

\* C32: a tool/execute (or alias) request that has an id and names a
\* registered tool has the handler of that tool invoked exactly once, with the
\* `arguments` value of params (an empty mapping when there is none); for every
\* other message, and for every failed read, no handler is invoked.
C32_HandlerInvokedExactlyOnce ==
    Dispatched
    => invoked =
         IF CallsHandler
         THEN << [tool |-> RequestedTool,
                  arguments |-> IF cur.body.params.has_arguments
                                THEN cur.body.params.arguments
                                ELSE ArgsEmpty] >>
         ELSE << >>

\* A request under the alias method for the registered tool "echo" has been
\* dispatched: the echo handler was called once, with the arguments sent.
C32_Witness ==
    /\ pc = "send"
    /\ HasMethod(cur, {"mcp/tool/execute"})
    /\ CallsHandler
    /\ invoked = << [tool |-> "echo", arguments |-> ArgsHi] >>

\* C33: whichever path the writer takes, the bytes of one response reach the
\* output at most once, and the output is a concatenation of whole frames:
\* every write is a whole frame, or a header directly followed by the body of
\* the same response, or that body; no response has two frames.
C33_OutputIsWholeFrames ==
    /\ \A i \in 1..Len(out) :
           /\ out[i].part \in {"frame", "header", "body"}
           /\ out[i].part = "header"
                => /\ i < Len(out)
                   /\ out[i + 1].part = "body"
                   /\ SameFrame(out[i], out[i + 1])
           /\ out[i].part = "body"
                => /\ i > 1
                   /\ out[i - 1].part = "header"
                   /\ SameFrame(out[i - 1], out[i])
    /\ \A i, j \in 1..Len(WholeFrames(out)) :
           i < j => WholeFrames(out)[i].n # WholeFrames(out)[j].n

\* C34: the lifecycle flags only move forward: the initialized flag, once
\* set, is never cleared, and neither is the shutdown flag; and once the loop
\* iteration in which the shutdown flag was set is over, the loop only ends:
\* nothing more is read, no handler is invoked, nothing is written.
C34_FlagsOnlyMoveForward ==
    [][ /\ initialized => initialized'
        /\ shutdown_requested => shutdown_requested'
        /\ (shutdown_requested /\ IterationOver)
             => /\ pc' \in {pc, "done"}
                /\ UNCHANGED << cur, nread, invoked, response, out, wrote >> ]_vars

\* The loop has ended after a `shutdown` request that followed an
\* `initialize`: both flags are set, and the shutdown response is the last
\* thing written.
C34_Witness ==
    /\ pc = "done"
    /\ initialized
    /\ shutdown_requested
    /\ ~signalled
    /\ nread = 2
    /\ HasMethod(cur, {"shutdown"})
    /\ cur.body.id # None
    /\ Len(out) = 2
    /\ out[2].n = 2
    /\ out[2].part = "frame"

\* C35: in each shipped server (command, filesystem, memory-store facade,
\* echo demo) the tool names advertised in the `initialize` result are exactly
\* the names with a registered handler once the server runs, so a
\* `tool/execute` request for an advertised tool is never answered with
\* "Tool not found".
C35_AdvertisedToolsAreRegistered ==
    srv_pc = "run"
    => /\ Advertised(MainOf(server)) = tool_handlers
       /\ served.method = "initialize"
            => { served.response.result.capabilities.tools[i].name :
                   i \in 1..Len(served.response.result.capabilities.tools) }
               = tool_handlers
       /\ (/\ served.method = "tool/execute"
           /\ served.tool_name \in Advertised(MainOf(server)))
            => \/ served.response.error = Absent
               \/ served.response.error.code # ToolNotFoundCode

\* The filesystem server runs and has answered a request for its advertised
\* tool delete_file with the tool's result.
C35_Witness ==
    /\ srv_pc = "run"
    /\ server = "filesystem-mcp"
    /\ served.method = "tool/execute"
    /\ served.tool_name = "delete_file"
    /\ served.response = ResultResponse(served.id, ResultOf("delete_file"))

\* The last thing the embedding server read is a message with a body that
\* parsed to an object carrying a non-null id.
EmbReadARequest ==
    /\ emb_cur.kind = "frame"
    /\ emb_cur.body.json = "object"
    /\ emb_cur.body.id # None

\* C36: the embedding server writes a response only in reply to a request it
\* has read: nothing reaches the output before the first message is read, and
\* nothing does for a message without an id or for a body that fails to parse.
C36_EmbRespondsOnlyToRequests ==
    \A i \in 1..Len(emb_out) :
        emb_out[i].ok
        => /\ emb_out[i].n >= 1
           /\ emb_out[i].n = emb_nread => EmbReadARequest

\* The embedding server has just read something that ends its loop: the end
\* of the input, before a header line or inside a body.
EmbInputEnded == emb_cur.kind \in {"eof", "eof_in_body"}

\* The message the embedding server is handling is a shutdown (an exit).
EmbHandling(method) ==
    /\ emb_cur.kind = "frame"
    /\ emb_cur.body.json = "object"
    /\ emb_cur.body.method = method

\* C37: the embedding server's loop ends after shutdown (the response is
\* tried first, and the loop ends whether or not the write went through),
\* after exit (nothing is written), or at the end of the input, and in no
\* other case: after headers without Content-Length, a body that does not
\* parse, an unknown tool or a failing embed call it reads on.
C37_EmbLoopEndsOnlyOnShutdownExitEof ==
    [][ /\ emb_pc = "read" /\ emb_pc' # "read"
           => /\ (emb_pc' = "done") <=> EmbInputEnded'
              /\ emb_pc' = "handle" <=> emb_cur'.kind = "frame"
        /\ emb_pc = "read" /\ emb_nread' # emb_nread /\ emb_cur'.kind = "nolength"
           => emb_pc' = "read"
        /\ emb_pc = "handle" /\ emb_pc' # "handle"
           => /\ (emb_pc' = "done")
                 <=> (EmbHandling("shutdown") \/ EmbHandling("exit"))
              /\ emb_pc' # "done" => emb_pc' = "read"
              /\ EmbHandling("shutdown")
                 => /\ Len(emb_out') = Len(emb_out) + 1
                    /\ emb_out'[Len(emb_out')].response
                         = EmbResult(EmbId(emb_cur.body), "null")
              /\ EmbHandling("exit") => emb_out' = emb_out
      ]_vars

\* A body that did not parse was answered in the first pass, the loop read
\* on, and ended on a shutdown whose response did not reach the output.
C37_Witness ==
    /\ emb_pc = "done"
    /\ emb_nread = 2
    /\ EmbHandling("shutdown")
    /\ \E i \in 1..Len(emb_out) :
          /\ emb_out[i].n = 1
          /\ emb_out[i].response.error.code = -32700
    /\ Len(emb_out) > 0
    /\ emb_out[Len(emb_out)].n = 2
    /\ ~emb_out[Len(emb_out)].ok

\* What read_file(path) without max_size answers in a file system.
ReadBack(fs, path) == ReadFile(fs, path, NoMaxSize, "ok")

\* The call that has just ended touched the path: it named it, or it named
\* the directory the path lies in, or it made the directory the path names.
Touched(call, p) ==
    \/ call.path = p
    \/ call.path = Parent(p)
    \/ Parent(call.path) = p

\* C38: after write_file(path, content) succeeds, read_file(path) without
\* max_size returns exactly that content, and goes on doing so until a
\* write_file or delete_file touches the path; after delete_file(path)
\* succeeds, read_file(path) and delete_file(path) both fail; a write_file,
\* read_file or delete_file that fails leaves the content of every file as
\* it was.
C38_WriteReadDeleteAgree ==
    [][ /\ fs_last'.op = "write" /\ fs_last'.ok
           => /\ ReadBack(files', fs_last'.path).ok
              /\ ReadBack(files', fs_last'.path).content = fs_last'.text
        /\ \A p \in Paths :
             fs_last'.op = "read" \/ ~Touched(fs_last', p)
             => /\ ReadBack(files', p).ok = ReadBack(files, p).ok
                /\ ReadBack(files', p).content = ReadBack(files, p).content
        /\ fs_last'.op = "delete" /\ fs_last'.ok
           => /\ ~ReadBack(files', fs_last'.path).ok
              /\ ~DeleteFile(files', fs_last'.path, "ok").ok
        /\ ~fs_last'.ok
           => \A p \in Paths :
                files[p].kind = "file" \/ files'[p].kind = "file"
                => files'[p] = files[p]
      ]_vars

=============================================================================
